---- MODULE Spec2Model ----
(***************************************************************************)
(* Token classification engine of the CHILDES kinship scripts: lexicon,   *)
(* surface normalisation, compound collapse, the per-utterance walk of     *)
(* compute() and the counters it feeds.                                    *)
(*                                                                         *)
(* Strings are TLA+ strings; Len, \o and SubSeq act on them character by   *)
(* character.  Python sequences are 0-based, the sequences here 1-based:   *)
(* a Python index p is the index p + 1 here.                               *)
(***************************************************************************)
EXTENDS Integers, Sequences, FiniteSets, TLC

(***************************************************************************)
(* Lexicon                                                                 *)
(***************************************************************************)
KINSHIP_SET ==
    {"mom", "mommy", "momma", "mama", "ma", "mother",
     "dad", "daddy", "dada", "papa", "pa", "father",
     "parent",
     "grandma", "grandpa", "granny", "gramma", "nana", "grandmom", "grandmommy",
     "grandmother", "grandfather", "granddad", "granddaddy", "gramps", "grampa",
     "grandpapa", "grandmama", "grandparent",
     "aunt", "auntie", "aunty", "uncle", "cousin", "niece", "nephew",
     "brother", "sister", "sibling", "sissy",
     "son", "daughter", "grandchild", "grandson", "granddaughter",
     "stepmom", "stepdad", "stepmother", "stepfather", "stepsister",
     "stepbrother", "stepson", "stepdaughter", "stepchild"}

TITLE_KINSHIP ==
    {"aunt", "auntie", "aunty", "uncle", "brother", "sister",
     "grandma", "grandpa", "granny", "gramma", "nana", "grandmom", "grandmommy",
     "grandmother", "grandfather", "granddad", "granddaddy", "gramps", "grampa",
     "grandpapa", "grandmama",
     "mama", "papa"}

PARENT_SET ==
    {"mom", "mommy", "momma", "mama", "ma", "mother",
     "dad", "daddy", "dada", "papa", "pa", "father"}

GRANDPARENT_SET ==
    {"grandma", "grandpa", "granny", "gramma", "nana", "grandmom", "grandmommy",
     "grandmother", "grandfather", "granddad", "granddaddy", "gramps", "grampa",
     "grandpapa", "grandmama", "grandparent"}

\* The keys of the MULTIWORD dictionary, as pairs.
MULTIWORD_KEYS ==
    {<<"grand", "ma">>, <<"grand", "mom">>, <<"grand", "mommy">>,
     <<"grand", "mother">>, <<"grand", "pa">>, <<"grand", "dad">>,
     <<"grand", "daddy">>, <<"grand", "father">>, <<"grand", "papa">>,
     <<"grand", "mama">>,
     <<"step", "mom">>, <<"step", "dad">>, <<"step", "mother">>,
     <<"step", "father">>, <<"step", "sister">>, <<"step", "brother">>,
     <<"step", "son">>, <<"step", "daughter">>, <<"step", "child">>}

\* MULTIWORD[(a, b)]: every value of the dictionary is the concatenation a + b.
MULTIWORD(pair) == pair[1] \o pair[2]

MULTI_COMPONENTS == {p[1] : p \in MULTIWORD_KEYS} \cup {p[2] : p \in MULTIWORD_KEYS}

DISCOURSE ==
    {"hey", "hi", "hello", "oh", "okay", "ok", "yeah", "yep", "yes", "no", "please",
     "well", "uh", "um", "huh", "hm", "hmm", "mm"}

DETERMINERS ==
    {"a", "an", "the",
     "this", "that", "these", "those",
     "my", "your", "his", "her", "our", "their", "its", "whose",
     "some", "any", "no", "each", "every", "either", "neither", "both", "all",
     "much", "many", "few", "several", "another", "other", "such", "one"}

CONJ == {"and", "or"}

\* The punctuation alternative [.,!?] of TOKEN_RE.
PUNCT == {".", ",", "!", "?"}

(***************************************************************************)
(* String helpers: Python's str methods on TLA+ strings                    *)
(***************************************************************************)
\* s.endswith(suf)
EndsWith(s, suf) ==
    /\ Len(s) >= Len(suf)
    /\ SubSeq(s, Len(s) - Len(suf) + 1, Len(s)) = suf

\* s.startswith(pre)
StartsWith(s, pre) ==
    /\ Len(s) >= Len(pre)
    /\ SubSeq(s, 1, Len(pre)) = pre

\* s[:-k]
DropLast(s, k) == IF Len(s) >= k THEN SubSeq(s, 1, Len(s) - k) ELSE ""

UpperToLower ==
    [c \in {"A", "B", "C", "D", "E", "F", "G", "H", "I", "J", "K", "L", "M",
            "N", "O", "P", "Q", "R", "S", "T", "U", "V", "W", "X", "Y", "Z"} |->
       CASE c = "A" -> "a" [] c = "B" -> "b" [] c = "C" -> "c" [] c = "D" -> "d"
         [] c = "E" -> "e" [] c = "F" -> "f" [] c = "G" -> "g" [] c = "H" -> "h"
         [] c = "I" -> "i" [] c = "J" -> "j" [] c = "K" -> "k" [] c = "L" -> "l"
         [] c = "M" -> "m" [] c = "N" -> "n" [] c = "O" -> "o" [] c = "P" -> "p"
         [] c = "Q" -> "q" [] c = "R" -> "r" [] c = "S" -> "s" [] c = "T" -> "t"
         [] c = "U" -> "u" [] c = "V" -> "v" [] c = "W" -> "w" [] c = "X" -> "x"
         [] c = "Y" -> "y" [] c = "Z" -> "z"]

\* s.lower()
RECURSIVE Lower(_)
Lower(s) ==
    IF Len(s) = 0 THEN ""
    ELSE LET c == SubSeq(s, 1, 1)
         IN  (IF c \in DOMAIN UpperToLower THEN UpperToLower[c] ELSE c)
                 \o Lower(SubSeq(s, 2, Len(s)))

\* NOISE_RE = ^[xyw]{3,}$, used through fullmatch
NoiseMinLen == 3

NOISE_RE(s) ==
    /\ Len(s) >= NoiseMinLen
    /\ \A i \in 1..Len(s) : SubSeq(s, i, i) \in {"x", "y", "w"}

\* WORD_RE.fullmatch(tok) for a token TOKEN_RE produced: the token is a word
\* exactly when it is not one of the punctuation marks.
WORD_RE(tok) == tok \notin PUNCT

(***************************************************************************)
(* Normaliser                                                              *)
(***************************************************************************)
\* The length a plural's base must reach before -es / -s is stripped.
MinBaseLen == 3

\* The possessive step of norm_surface: t after the if / elif on 's and s'.
StripPossessive(t) ==
    IF EndsWith(t, "'s")
    THEN LET base == DropLast(t, 2)
         IN  IF base \in KINSHIP_SET \/ base \in MULTI_COMPONENTS THEN base ELSE t
    ELSE IF EndsWith(t, "s'")
    THEN LET base == DropLast(t, 1)
         IN  IF base \in KINSHIP_SET \/ base \in MULTI_COMPONENTS THEN base ELSE t
    ELSE t

\* The plural steps of norm_surface, in the order of the code.
StripPlural(t) ==
    IF EndsWith(t, "ies") /\ (DropLast(t, 3) \o "y") \in KINSHIP_SET
    THEN DropLast(t, 3) \o "y"
    ELSE IF /\ EndsWith(t, "es")
            /\ DropLast(t, 2) \in KINSHIP_SET
            /\ Len(DropLast(t, 2)) >= MinBaseLen
    THEN DropLast(t, 2)
    ELSE IF /\ EndsWith(t, "s")
            /\ DropLast(t, 1) \in KINSHIP_SET
            /\ Len(DropLast(t, 1)) >= MinBaseLen
    THEN DropLast(t, 1)
    ELSE t

norm_surface(tok) == StripPlural(StripPossessive(Lower(tok)))

has_genitive(tok) ==
    LET t == Lower(tok) IN EndsWith(t, "'s") \/ EndsWith(t, "s'")


(***************************************************************************)
(* Input vocabularies                                                      *)
(***************************************************************************)
\* Tokens as TOKEN_RE yields them: a determiner, a conjunction, a discourse
\* particle, the two parts of a compound, a genitive, a title term, a proper
\* name, a noise token and the comma.
LineVocab == {"my", "and", "hi", "grand", "ma", "ma's", "Auntie", "Sarah", "xxx", ","}

CorpusVocab == {"my", "grand", "ma", "Auntie", "Sarah"}

\* Tokens around a parent term: a verb, two parent terms (one of them listed
\* in TITLE_KINSHIP), a proper name, a determiner and the comma.
TitleVocab == {"see", "mama", "dad", "Sarah", "my", ","}

\* The utterances of the corpus specification: no token, one or two.
CorpusUtterances ==
    {<<>>} \cup {<<a>> : a \in CorpusVocab} \cup {<<a, b>> : a \in CorpusVocab, b \in CorpusVocab}

\* norm_surface, has_genitive and the noise test are functions of one token:
\* their values on the tokens of the input vocabularies are tabulated once.

\* Tokens of an utterance whose %mor tier has a clitic group: wanna is
\* v|want~inf|to, two entries for one word.
MorVocab == {"wanna", "see", "Auntie", "Sarah"}

KnownTokens == LineVocab \cup CorpusVocab \cup TitleVocab \cup MorVocab

NormTable == [tok \in KnownTokens |-> norm_surface(tok)]

GenitiveTable == [tok \in KnownTokens |-> has_genitive(tok)]

NoiseTable == [tok \in KnownTokens |-> NOISE_RE(Lower(tok))]

LowerTable == [tok \in KnownTokens |-> Lower(tok)]

Norm(tok) == IF tok \in KnownTokens THEN NormTable[tok] ELSE norm_surface(tok)

Genitive(tok) == IF tok \in KnownTokens THEN GenitiveTable[tok] ELSE has_genitive(tok)

Noise(tok) == IF tok \in KnownTokens THEN NoiseTable[tok] ELSE NOISE_RE(Lower(tok))

\* The comma test looking before the item only.
is_comma_preceded(toks, start_idx, end_idx) ==
    start_idx > 1 /\ toks[start_idx - 1] = ","

(***************************************************************************)
(* Surface helpers of the classifier                                       *)
(***************************************************************************)
\* tokens[start_idx - 1] == ',' or tokens[end_idx + 1] == ','
is_comma_adjacent(toks, start_idx, end_idx) ==
    \/ start_idx > 1 /\ toks[start_idx - 1] = ","
    \/ end_idx + 1 <= Len(toks) /\ toks[end_idx + 1] = ","

\* The collapse advancing by one position after a compound: the second word
\* of a compound is emitted again.
RECURSIVE CollapseFromOverlap(_, _)
CollapseFromOverlap(word_norm, i) ==
    IF i > Len(word_norm) THEN <<>>
    ELSE IF i + 1 <= Len(word_norm) /\ <<word_norm[i], word_norm[i + 1]>> \in MULTIWORD_KEYS
    THEN <<MULTIWORD(<<word_norm[i], word_norm[i + 1]>>)>>
             \o CollapseFromOverlap(word_norm, i + 1)
    ELSE <<word_norm[i]>> \o CollapseFromOverlap(word_norm, i + 1)

\* The while loop of collapse_multiword from position i on.
RECURSIVE CollapseFrom(_, _)
CollapseFrom(word_norm, i) ==
    IF i > Len(word_norm) THEN <<>>
    ELSE IF i + 1 <= Len(word_norm) /\ <<word_norm[i], word_norm[i + 1]>> \in MULTIWORD_KEYS
    THEN <<MULTIWORD(<<word_norm[i], word_norm[i + 1]>>)>> \o CollapseFrom(word_norm, i + 2)
    ELSE <<word_norm[i]>> \o CollapseFrom(word_norm, i + 1)

collapse_multiword(word_norm) == CollapseFrom(word_norm, 1)

\* The while loop of collapse_with_spans: items (lexeme, first, last).
RECURSIVE SpansFrom(_, _)
SpansFrom(word_norm, i) ==
    IF i > Len(word_norm) THEN <<>>
    ELSE IF i + 1 <= Len(word_norm) /\ <<word_norm[i], word_norm[i + 1]>> \in MULTIWORD_KEYS
    THEN <<[lex |-> MULTIWORD(<<word_norm[i], word_norm[i + 1]>>), s |-> i, e |-> i + 1]>>
             \o SpansFrom(word_norm, i + 2)
    ELSE <<[lex |-> word_norm[i], s |-> i, e |-> i]>> \o SpansFrom(word_norm, i + 1)

\* The items without the collapse: every word an item of its own.
spans_uncollapsed(word_norm) ==
    [k \in 1..Len(word_norm) |-> [lex |-> word_norm[k], s |-> k, e |-> k]]

collapse_with_spans(word_norm) == SpansFrom(word_norm, 1)

has_determiner(word_norm, word_raw, idx) ==
    LET j == idx - 1
    IN  \/ Genitive(word_raw[idx])
        \/ j >= 1 /\ (word_norm[j] \in DETERMINERS \/ Genitive(word_raw[j]))
        \/ /\ j >= 1
           /\ word_norm[j] \in CONJ
           /\ j - 2 >= 1
           /\ word_norm[j - 1] \in KINSHIP_SET
           /\ (word_norm[j - 2] \in DETERMINERS \/ Genitive(word_raw[j - 2]))

\* mor_tokens[idx + 1] carries the proper-noun tag.
is_followed_by_proper_noun(mor_tokens, idx) ==
    idx + 1 <= Len(mor_tokens) /\ mor_tokens[idx + 1][1] = "n:prop"

\* The tokens the classifier keeps as words: word tokens that are not noise.
IsKeptWord(tok) == WORD_RE(tok) /\ ~Noise(tok)

\* The positions, from i on, of the tokens kept as words, in order.
RECURSIVE KeptIdxFrom(_, _)
KeptIdxFrom(toks, i) ==
    IF i > Len(toks) THEN <<>>
    ELSE (IF IsKeptWord(toks[i]) THEN <<i>> ELSE <<>>) \o KeptIdxFrom(toks, i + 1)

\* word_token_idx
word_token_idx_of(toks) == KeptIdxFrom(toks, 1)

word_raw_of(toks) ==
    LET wti == word_token_idx_of(toks) IN [k \in 1..Len(wti) |-> toks[wti[k]]]

word_norm_of(toks) ==
    LET wti == word_token_idx_of(toks) IN [k \in 1..Len(wti) |-> Norm(toks[wti[k]])]

\* utter_standalone with the discourse particles left in the sequence.
utter_standalone_unfiltered(word_norm) ==
    LET collapsed == collapse_multiword(word_norm)
    IN  Len(collapsed) > 0 /\ \A k \in 1..Len(collapsed) : collapsed[k] \in KINSHIP_SET

\* filtered / utter_standalone of compute().
IsContent(w) == w \notin DISCOURSE /\ ~NOISE_RE(w)

utter_standalone_of(word_norm) ==
    LET collapsed == collapse_multiword(word_norm)
        filtered  == SelectSeq(collapsed, IsContent)
    IN  Len(filtered) > 0 /\ \A k \in 1..Len(filtered) : filtered[k] \in KINSHIP_SET

(***************************************************************************)
(* The classifier walk of compute() (compute_childes_kinship_vocative.py)  *)
(***************************************************************************)
\* One kinship occurrence as the walk counts it.  idx is the position of its
\* first word in word_norm, start_tok / end_tok its span in tokens, label the
\* counter it increments (voc, bare or det), title_name whether the %mor
\* override fired for it.
Occ(lex, idx, multi, start_tok, end_tok, label, title_name) ==
    [lex |-> lex, idx |-> idx, multi |-> multi, start_tok |-> start_tok,
     end_tok |-> end_tok, label |-> label, title_name |-> title_name]

\* The compound branch of the walk: the item at idx, idx + 1.
MultiwordOcc(c, idx) ==
    LET lex       == MULTIWORD(<<c.word_norm[idx], c.word_norm[idx + 1]>>)
        start_tok == c.word_token_idx[idx]
        end_tok   == c.word_token_idx[idx + 1]
        is_voc    == c.utter_standalone \/ is_comma_adjacent(c.tokens, start_tok, end_tok)
        label     == IF is_voc THEN "voc"
                     ELSE IF has_determiner(c.word_norm, c.word_raw, idx) THEN "det"
                     ELSE "bare"
    IN  IF lex \in KINSHIP_SET
        THEN <<Occ(lex, idx, TRUE, start_tok, end_tok, label, FALSE)>>
        ELSE <<>>

\* The single-token branch of the walk: the item at idx, with the %mor
\* title+name check at mor_word_idx.
SingleOcc(c, idx, mor_word_idx) ==
    LET lex       == c.word_norm[idx]
        start_tok == c.word_token_idx[idx]
        end_tok   == start_tok
        is_voc    == c.utter_standalone \/ is_comma_adjacent(c.tokens, start_tok, end_tok)
        is_title_name ==
            /\ ~is_voc
            /\ lex \in TITLE_KINSHIP
            /\ Len(c.mor_tokens) > 0
            /\ mor_word_idx <= Len(c.mor_tokens)
            /\ is_followed_by_proper_noun(c.mor_tokens, mor_word_idx)
        label     == IF is_voc THEN "voc"
                     ELSE IF has_determiner(c.word_norm, c.word_raw, idx) THEN "det"
                     ELSE IF is_title_name THEN "det"
                     ELSE "bare"
    IN  IF lex \in KINSHIP_SET
        THEN <<Occ(lex, idx, FALSE, start_tok, end_tok, label, is_title_name)>>
        ELSE <<>>

\* The walk with the compound branch advancing by one word only: the second
\* word of a compound is classified again on its own.
RECURSIVE WalkFromRecount(_, _, _)
WalkFromRecount(c, idx, mor_word_idx) ==
    IF idx > Len(c.word_norm) THEN <<>>
    ELSE IF /\ idx + 1 <= Len(c.word_norm)
            /\ <<c.word_norm[idx], c.word_norm[idx + 1]>> \in MULTIWORD_KEYS
    THEN MultiwordOcc(c, idx) \o SingleOcc(c, idx + 1, mor_word_idx + 1)
             \o WalkFromRecount(c, idx + 2, mor_word_idx + 2)
    ELSE SingleOcc(c, idx, mor_word_idx) \o WalkFromRecount(c, idx + 1, mor_word_idx + 1)

\* while idx < n: the occurrences counted from idx on.
RECURSIVE WalkFrom(_, _, _)
WalkFrom(c, idx, mor_word_idx) ==
    IF idx > Len(c.word_norm) THEN <<>>
    ELSE IF /\ idx + 1 <= Len(c.word_norm)
            /\ <<c.word_norm[idx], c.word_norm[idx + 1]>> \in MULTIWORD_KEYS
    THEN MultiwordOcc(c, idx) \o WalkFrom(c, idx + 2, mor_word_idx + 2)
    ELSE SingleOcc(c, idx, mor_word_idx) \o WalkFrom(c, idx + 1, mor_word_idx + 1)

\* The locals compute() derives from one utterance before the walk.
ContextOf(toks, mor_tokens, wti) ==
    [tokens           |-> toks,
     mor_tokens       |-> mor_tokens,
     word_norm        |-> [k \in 1..Len(wti) |-> Norm(toks[wti[k]])],
     word_raw         |-> [k \in 1..Len(wti) |-> toks[wti[k]]],
     word_token_idx   |-> wti,
     utter_standalone |-> utter_standalone_of([k \in 1..Len(wti) |-> Norm(toks[wti[k]])])]

UtterContext(toks, mor_tokens) == ContextOf(toks, mor_tokens, word_token_idx_of(toks))

\* The occurrences compute() counts for one utterance; none when the
\* utterance has no word (the early continue).
WalkAll(c) == IF Len(c.word_norm) = 0 THEN <<>> ELSE WalkFrom(c, 1, 1)

ClassifyUtterance(toks, mor_tokens) == WalkAll(UtterContext(toks, mor_tokens))

\* A Counter: a function from the keys it holds to their counts; a key it
\* does not hold reads 0 (Counter.__missing__, Counter.get(term, 0)).
Get(counter, t) == IF t \in DOMAIN counter THEN counter[t] ELSE 0

\* counter[t] += 1
Inc(counter, t) ==
    [k \in DOMAIN counter \cup {t} |-> IF k = t THEN Get(counter, t) + 1 ELSE counter[k]]

IsVoc(o)   == o.label = "voc"
IsArg(o)   == o.label # "voc"
IsBare(o)  == o.label = "bare"
IsDet(o)   == o.label = "det"
IsTitle(o) == o.title_name

\* Whether the walk increments the named counter for the occurrence o of a
\* line spoken by a child (is_child) or by someone else.
Increments(name, o, is_child) ==
    CASE name = "voc_counts" -> IsVoc(o)
      [] name = "voc_chi_counts" -> IsVoc(o) /\ is_child
      [] name = "voc_adu_counts" -> IsVoc(o) /\ ~is_child
      [] name = "arg_counts" -> IsArg(o)
      [] name = "arg_bare_counts" -> IsBare(o)
      [] name = "arg_det_counts" -> IsDet(o)
      [] name = "arg_title_name_excluded" -> IsTitle(o)

\* The named Counter after the increments the occurrences of a line cause,
\* in the order of the walk.
RECURSIVE Bump(_, _, _, _)
Bump(counter, occseq, name, is_child) ==
    IF Len(occseq) = 0 THEN counter
    ELSE Bump(IF Increments(name, Head(occseq), is_child)
                  THEN Inc(counter, Head(occseq).lex) ELSE counter,
              Tail(occseq), name, is_child)

\* surface_total's increment: the words of the utterance that are not noise.
SurfaceWords(toks) == Len(word_token_idx_of(toks))

(***************************************************************************)
(* Inputs: speaker lines                                                   *)
(***************************************************************************)
\* Longest utterance (in tokens) of the single-line specification.
MaxLen == 4

\* Speaker lines of the corpus specification.
MaxLines == 2

\* A %mor tier aligned one entry per kept word, as parse_mor_tokens returns
\* it: the proper name tagged n:prop, every other word n.
AlignedMor(toks) ==
    LET raw == word_raw_of(toks)
    IN  [k \in 1..Len(raw) |->
            <<IF raw[k] = "Sarah" THEN "n:prop" ELSE "n", LowerTable[raw[k]]>>]

\* A speaker line: its speaker code, the tokens of its utterance and the
\* parsed %mor tier that follows it (empty when the line has none).
MakeLine(sp, toks, tier) ==
    [speaker |-> sp, tokens |-> toks,
     mor_tokens |-> IF tier = "aligned" THEN AlignedMor(toks) ELSE <<>>]

\* parse_mor_tokens on the %mor tier of the words raw[k..]: one (pos, lemma)
\* entry per part of a clitic group, so wanna contributes two entries.
RECURSIVE parse_mor_tokens(_, _)
parse_mor_tokens(raw, k) ==
    IF k > Len(raw) THEN <<>>
    ELSE (IF raw[k] = "wanna" THEN <<<<"v", "want">>, <<"inf", "to">>>>
          ELSE IF raw[k] = "Sarah" THEN <<<<"n:prop", LowerTable[raw[k]]>>>>
          ELSE <<<<"n", LowerTable[raw[k]]>>>>)
         \o parse_mor_tokens(raw, k + 1)

\* A line comes without a %mor tier or with an aligned one.
Tiers == {"none", "aligned"}

NoLine == [speaker |-> "", tokens |-> <<>>, mor_tokens |-> <<>>]

\* The strata of the manual-check sample.
Strata == {"parent_voc", "parent_arg", "extended_voc", "extended_arg"}

\* conf as confusion_from_labels creates it.
ZeroConf ==
    [cat \in {"parent", "extended"} |-> [cell \in {"tp", "fp", "fn", "tn"} |-> 0]]

\* No row read yet.
NoRow == [category |-> "", class |-> "", manual_label |-> ""]

\* The options of main() that decide its control flow: whether each is given.
ArgNames == {"labels", "confusion_parent", "confusion_extended", "samples_out",
             "root", "sensitivity_out"}

NoArgs == [a \in ArgNames |-> FALSE]

(***************************************************************************)
(* State of compute()                                                      *)
(***************************************************************************)
VARIABLES
    line,                    \* the speaker line at lines[i]
    nlines,                  \* speaker lines processed so far
    voc_counts,
    arg_counts,
    arg_bare_counts,
    arg_det_counts,
    arg_title_name_excluded,
    voc_chi_counts,
    voc_adu_counts,
    surface_total,
    occs,                    \* history: the occurrences counted for `line`
    standalone,              \* utter_standalone as computed for `line`
    kin_items                \* history: kinship items of the collapsed sequences

computeVars == <<line, nlines, voc_counts, arg_counts, arg_bare_counts, arg_det_counts,
                 arg_title_name_excluded, voc_chi_counts, voc_adu_counts, surface_total,
                 occs, standalone, kin_items>>

\* One call of norm_surface.
VARIABLES
    norm_base,               \* the lexeme (or short base) the token derives from
    norm_form,               \* the suffix form of the token
    norm_in,                 \* tok
    norm_out,                \* the value returned
    norm_done

normVars == <<norm_base, norm_form, norm_in, norm_out, norm_done>>

\* One call of collapse_multiword / collapse_with_spans.
VARIABLES
    col_in,                  \* word_norm
    col_once,                \* collapse_multiword(word_norm)
    col_twice,               \* collapse_multiword of that result
    col_spans,               \* collapse_with_spans(word_norm)
    col_done

collapseVars == <<col_in, col_once, col_twice, col_spans, col_done>>

\* One call of compute_counts(root, heuristic) of the sensitivity analysis.
VARIABLES
    heuristic,
    hvoc,                    \* voc_counts of compute_counts
    harg,                    \* arg_counts of compute_counts
    htokens,                 \* tokens of the line processed
    hitems,                  \* history: the kinship items of the line as classified
    hdone

heurVars == <<heuristic, hvoc, harg, htokens, hitems, hdone>>

\* The reservoirs of the manual-check sampler.
VARIABLES
    samples,
    counts,
    n_per_stratum,           \* k
    offered                  \* history: the items offered to each stratum, in order

reservoirVars == <<samples, counts, n_per_stratum, offered>>

\* One call of confusion_from_labels.
VARIABLES
    ambiguous,               \* the --ambiguous policy
    conf,
    row,                     \* the row of the labels file read last
    conf_before,             \* history: conf before that row
    nrows

confusionVars == <<ambiguous, conf, row, conf_before, nrows>>

\* One run of main() of vocative_uncertainty_analysis.py.
VARIABLES
    args,                    \* which options the command line gives
    pc,                      \* the statement main() is at
    effects                  \* history: files read, computations and files written, in order

mainVars == <<args, pc, effects>>

\* One rate, percentage or ratio computation of the writers.
VARIABLES
    rate_in,                 \* the counts (and draws) it is computed from
    rate_out                 \* the values computed, by name

rateVars == <<rate_in, rate_out>>

\* How main() of vocative_uncertainty_analysis.py builds conf and hands it to
\* simulate_corrections.
VARIABLES
    use_labels,              \* whether --labels is given
    opt_parent,              \* --confusion-parent, split at the commas
    opt_extended,            \* --confusion-extended, split at the commas
    conf_pc,
    handed                   \* conf as simulate_corrections receives it

handoverVars == <<use_labels, opt_parent, opt_extended, conf_pc, handed>>

\* analyse() of adjacency_analysis.py over a corpus, and compute() over the
\* same files.
VARIABLES
    adj_corpus,              \* the files in sorted path order, each its speaker lines
    adj_f,                   \* the file analyse() is in
    adj_i,                   \* the utterance of that file it is at
    adj,                     \* the eight Counters of analyse()
    adj_pc,
    listing,                 \* the order in which rglob yields the files to compute()
    listed                   \* how many of them compute() has processed

adjacencyVars == <<adj_corpus, adj_f, adj_i, adj, adj_pc, listing, listed>>

\* One call of spearman(x, y).
VARIABLES
    sp_x,
    sp_y,
    sp_out                   \* the value returned; pending before the call

spearmanVars == <<sp_x, sp_y, sp_out>>

\* The walk of compute() over the files of a corpus, and what main() prints.
VARIABLES
    walk_files,              \* files: the list root.rglob('*.cha') gave
    fi,                      \* the file the for loop is at
    li,                      \* i + 1: the line the while loop is at
    walk_pc,
    visited,                 \* history: the paths of the files taken, in order
    skipped_files,           \* history: files whose read raised
    skipped_lines,           \* history: speaker lines without ':'
    report                   \* what main() printed, by name

walkVars == <<walk_files, fi, li, walk_pc, visited, skipped_files, skipped_lines, report>>

vars == <<computeVars, normVars, collapseVars, heurVars, reservoirVars, confusionVars,
          mainVars, rateVars, handoverVars, adjacencyVars, spearmanVars, walkVars>>

\* Everything but one group of variables.
notCompute ==
    <<normVars, collapseVars, heurVars, reservoirVars, confusionVars, mainVars,
      rateVars, handoverVars, adjacencyVars, spearmanVars, walkVars>>

notNorm ==
    <<computeVars, collapseVars, heurVars, reservoirVars, confusionVars, mainVars,
      rateVars, handoverVars, adjacencyVars, spearmanVars, walkVars>>

notCollapse ==
    <<computeVars, normVars, heurVars, reservoirVars, confusionVars, mainVars, rateVars,
      handoverVars, adjacencyVars, spearmanVars, walkVars>>

notHeur ==
    <<computeVars, normVars, collapseVars, reservoirVars, confusionVars, mainVars,
      rateVars, handoverVars, adjacencyVars, spearmanVars, walkVars>>

notReservoir ==
    <<computeVars, normVars, collapseVars, heurVars, confusionVars, mainVars, rateVars,
      handoverVars, adjacencyVars, spearmanVars, walkVars>>

notConfusion ==
    <<computeVars, normVars, collapseVars, heurVars, reservoirVars, mainVars, rateVars,
      handoverVars, adjacencyVars, spearmanVars, walkVars>>

notMain ==
    <<computeVars, normVars, collapseVars, heurVars, reservoirVars, confusionVars,
      rateVars, handoverVars, adjacencyVars, spearmanVars, walkVars>>

notRate ==
    <<computeVars, normVars, collapseVars, heurVars, reservoirVars, confusionVars,
      mainVars, handoverVars, adjacencyVars, spearmanVars, walkVars>>

notHandover ==
    <<computeVars, normVars, collapseVars, heurVars, reservoirVars, confusionVars,
      mainVars, rateVars, adjacencyVars, spearmanVars, walkVars>>

notAdjacency ==
    <<computeVars, normVars, collapseVars, heurVars, reservoirVars, confusionVars,
      mainVars, rateVars, handoverVars, spearmanVars, walkVars>>

notSpearman ==
    <<computeVars, normVars, collapseVars, heurVars, reservoirVars, confusionVars,
      mainVars, rateVars, handoverVars, adjacencyVars, walkVars>>

notWalk ==
    <<computeVars, normVars, collapseVars, heurVars, reservoirVars, confusionVars,
      mainVars, rateVars, handoverVars, adjacencyVars, spearmanVars>>

\* Everything but the variables of compute() and of the walk over the files.
notComputeWalk ==
    <<normVars, collapseVars, heurVars, reservoirVars, confusionVars, mainVars,
      rateVars, handoverVars, adjacencyVars, spearmanVars>>

\* Everything but the variables of compute() and of analyse().
notComputeAdjacency ==
    <<normVars, collapseVars, heurVars, reservoirVars, confusionVars, mainVars,
      rateVars, handoverVars, spearmanVars, walkVars>>

\* Counter()
ZeroCounter == <<>>

\* sum(counter.values())
RECURSIVE Total(_)
Total(counter) ==
    IF DOMAIN counter = {} THEN 0
    ELSE LET t == CHOOSE k \in DOMAIN counter : TRUE
         IN  counter[t] + Total([k \in DOMAIN counter \ {t} |-> counter[k]])

InitCounters ==
    /\ voc_counts = ZeroCounter
    /\ arg_counts = ZeroCounter
    /\ arg_bare_counts = ZeroCounter
    /\ arg_det_counts = ZeroCounter
    /\ arg_title_name_excluded = ZeroCounter
    /\ voc_chi_counts = ZeroCounter
    /\ voc_adu_counts = ZeroCounter
    /\ surface_total = 0
    /\ occs = <<>>
    /\ standalone = FALSE
    /\ kin_items = 0
    /\ nlines = 0

\* The parts of the program a specification does not run stay as they are
\* before they start.
ComputeIdle == InitCounters /\ line = NoLine

NormIdle ==
    /\ norm_base = "" /\ norm_form = "" /\ norm_in = "" /\ norm_out = ""
    /\ norm_done = FALSE

CollapseIdle ==
    /\ col_in = <<>> /\ col_once = <<>> /\ col_twice = <<>> /\ col_spans = <<>>
    /\ col_done = FALSE

HeurIdle ==
    /\ heuristic = "default" /\ hvoc = ZeroCounter /\ harg = ZeroCounter
    /\ htokens = <<>> /\ hitems = <<>> /\ hdone = FALSE

ReservoirIdle ==
    /\ samples = [key \in Strata |-> <<>>]
    /\ counts = [key \in Strata |-> 0]
    /\ offered = [key \in Strata |-> <<>>]
    /\ n_per_stratum = 0

ConfusionIdle ==
    /\ ambiguous = "drop" /\ conf = ZeroConf /\ conf_before = ZeroConf
    /\ row = NoRow /\ nrows = 0

MainIdle == args = NoArgs /\ pc = "parse_args" /\ effects = <<>>

RateIdle == rate_in = [fn |-> "none"] /\ rate_out = <<>>

WalkIdle ==
    /\ walk_files = <<>> /\ fi = 1 /\ li = 1 /\ walk_pc = "open" /\ visited = <<>>
    /\ skipped_files = 0 /\ skipped_lines = 0 /\ report = <<>>

SpearmanIdle == sp_x = <<>> /\ sp_y = <<>> /\ sp_out = [kind |-> "pending"]

AdjacencyIdle ==
    /\ adj_corpus = <<>> /\ adj_f = 1 /\ adj_i = 1 /\ adj = <<>> /\ adj_pc = "walk"
    /\ listing = <<>> /\ listed = 0

HandoverIdle ==
    /\ use_labels = TRUE /\ opt_parent = <<>> /\ opt_extended = <<>>
    /\ conf_pc = "build" /\ handed = <<>>

IdleBut(part) ==
    /\ part = "compute" \/ ComputeIdle
    /\ part = "norm" \/ NormIdle
    /\ part = "collapse" \/ CollapseIdle
    /\ part = "heur" \/ HeurIdle
    /\ part = "reservoir" \/ ReservoirIdle
    /\ part = "confusion" \/ ConfusionIdle
    /\ part = "main" \/ MainIdle
    /\ part = "rate" \/ RateIdle
    /\ part = "handover" \/ HandoverIdle
    /\ part = "adjacency" \/ AdjacencyIdle
    /\ part = "spearman" \/ SpearmanIdle
    /\ part = "walk" \/ WalkIdle

\* The kinship items of the compound-collapsed word sequence of an utterance.
KinshipItems(toks) ==
    LET collapsed == collapse_multiword(word_norm_of(toks))
    IN  Cardinality({k \in 1..Len(collapsed) : collapsed[k] \in KINSHIP_SET})

\* One iteration of the line loop of compute() on the speaker line l: the
\* tokenisation, the walk and every counter increment it makes.
Process(l) ==
    /\ \E c \in {UtterContext(l.tokens, l.mor_tokens)} : \E found \in {WalkAll(c)} :
       LET is_child == l.speaker = "CHI"
       IN  /\ voc_counts' = Bump(voc_counts, found, "voc_counts", is_child)
           /\ voc_chi_counts' = Bump(voc_chi_counts, found, "voc_chi_counts", is_child)
           /\ voc_adu_counts' = Bump(voc_adu_counts, found, "voc_adu_counts", is_child)
           /\ arg_counts' = Bump(arg_counts, found, "arg_counts", is_child)
           /\ arg_bare_counts' = Bump(arg_bare_counts, found, "arg_bare_counts", is_child)
           /\ arg_det_counts' = Bump(arg_det_counts, found, "arg_det_counts", is_child)
           /\ arg_title_name_excluded' =
                  Bump(arg_title_name_excluded, found, "arg_title_name_excluded", is_child)
           /\ occs' = found
           /\ standalone' = c.utter_standalone
    /\ surface_total' = surface_total + SurfaceWords(l.tokens)
    /\ kin_items' = kin_items + KinshipItems(l.tokens)
    /\ nlines' = nlines + 1
    /\ line' = l

\* compute() over a corpus of at most MaxLines speaker lines: the line loop
\* reaches the next speaker line and processes it.
ProcessLine ==
    /\ nlines < MaxLines
    /\ \E toks \in CorpusUtterances, sp \in {"CHI", "MOT"}, tier \in Tiers :
          Process(MakeLine(sp, toks, tier))
    /\ UNCHANGED notCompute

InitCorpus == IdleBut("compute") /\ ComputeIdle

NextCorpus == ProcessLine

SpecCorpus == InitCorpus /\ [][NextCorpus]_vars

\* compute() on the first speaker line of a transcript: any utterance of at
\* most MaxLen tokens over LineVocab.
ProcessFirstLine ==
    /\ nlines = 0
    /\ \E k \in 0..MaxLen : \E toks \in [1..k -> LineVocab] :
          \E tier \in Tiers : Process(MakeLine("MOT", toks, tier))
    /\ UNCHANGED notCompute

NextLine == ProcessFirstLine

SpecLine == InitCorpus /\ [][NextLine]_vars

\* Longest utterance of the specification of parent terms.
MaxTitleLen == 3

\* compute() on the first speaker line of a transcript: any utterance of at
\* most MaxTitleLen tokens over TitleVocab, with or without its %mor tier.
ProcessParentLine ==
    /\ nlines = 0
    /\ \E k \in 0..MaxTitleLen : \E toks \in [1..k -> TitleVocab] :
          \E tier \in Tiers : Process(MakeLine("MOT", toks, tier))
    /\ UNCHANGED notCompute

NextParent == ProcessParentLine

\* Longest utterance of the specification of clitic groups.
MaxMorLen == 3

\* compute() on the first speaker line of a transcript: any utterance of at
\* most MaxMorLen tokens over MorVocab, with its %mor tier as parse_mor_tokens
\* returns it, or without one.
ProcessCliticLine ==
    /\ nlines = 0
    /\ \E k \in 0..MaxMorLen : \E toks \in [1..k -> MorVocab] : \E tier \in {"none", "parsed"} :
          Process([speaker |-> "MOT", tokens |-> toks,
                   mor_tokens |-> IF tier = "parsed"
                                  THEN parse_mor_tokens(word_raw_of(toks), 1)
                                  ELSE <<>>])
    /\ UNCHANGED notCompute

NextClitic == ProcessCliticLine

SpecClitic == InitCorpus /\ [][NextClitic]_vars

SpecParent == InitCorpus /\ [][NextParent]_vars

(***************************************************************************)
(* norm_surface on the forms of the lexemes                                *)
(***************************************************************************)
\* The forms a token takes: the bare lexeme, its possessives, its plurals.
Forms == {"", "'s", "s'", "s", "es", "ies"}

\* Two-character bases next to the registered lexemes.
ShortBases == {"ma", "pa", "hi", "ye", "bu"}

\* The token of a base in a form; the -ies plural replaces a final y.
FormOf(base, form) ==
    IF form = "ies" THEN DropLast(base, 1) \o "ies" ELSE base \o form

HasForm(base, form) == form = "ies" => EndsWith(base, "y")

InitNorm ==
    /\ IdleBut("norm")
    /\ norm_base \in KINSHIP_SET \cup ShortBases
    /\ norm_form \in Forms
    /\ HasForm(norm_base, norm_form)
    /\ norm_in = FormOf(norm_base, norm_form)
    /\ norm_out = ""
    /\ norm_done = FALSE

Normalize ==
    /\ ~norm_done
    /\ norm_out' = norm_surface(norm_in)
    /\ norm_done' = TRUE
    /\ UNCHANGED <<norm_base, norm_form, norm_in, notNorm>>

NextNorm == Normalize

SpecNorm == InitNorm /\ [][NextNorm]_vars

(***************************************************************************)
(* The compound collapse on sequences of normalized words                  *)
(***************************************************************************)
\* Longest sequence of normalized words collapsed.
MaxWords == 4

\* Both first parts of compounds, second parts, a compound lexeme and a
\* word that is no part of any compound.
CollapseVocab == {"grand", "step", "ma", "son", "grandma", "my"}

InitCollapse ==
    /\ IdleBut("collapse")
    /\ col_in \in UNION {[1..k -> CollapseVocab] : k \in 0..MaxWords}
    /\ col_once = <<>> /\ col_twice = <<>> /\ col_spans = <<>>
    /\ col_done = FALSE

Collapse ==
    /\ ~col_done
    /\ col_once' = collapse_multiword(col_in)
    /\ col_twice' = collapse_multiword(collapse_multiword(col_in))
    /\ col_spans' = collapse_with_spans(col_in)
    /\ col_done' = TRUE
    /\ UNCHANGED <<col_in, notCollapse>>

NextCollapse == Collapse

SpecCollapse == InitCollapse /\ [][NextCollapse]_vars

(***************************************************************************)
(* compute_counts under the heuristic variants                             *)
(* (vocative_uncertainty_analysis.py)                                      *)
(***************************************************************************)
Heuristics == {"default", "strict", "loose"}

\* A discourse particle, kinship terms, the first part of a compound, a
\* proper name, a noise token and the comma.
HeurVocab == {"hi", "ma", "grand", "Sarah", "xxx", ","}

\* The loose variant without its utterance-initial test.
HeurIsVocLooseAsDefault(h, comma, utter_standalone, is_initial) ==
    IF h = "strict" THEN comma ELSE comma \/ utter_standalone

\* The strict variant taking the utterance-initial item as vocative too.
HeurIsVocStrictInitial(h, comma, utter_standalone, is_initial) ==
    IF h = "strict" THEN comma \/ is_initial
    ELSE IF h = "loose" THEN comma \/ utter_standalone \/ is_initial
    ELSE comma \/ utter_standalone

\* is_voc of compute_counts.
HeurIsVoc(h, comma, utter_standalone, is_initial) ==
    IF h = "strict" THEN comma
    ELSE IF h = "loose" THEN comma \/ utter_standalone \/ is_initial
    ELSE comma \/ utter_standalone

\* The kinship items of one line as compute_counts classifies them under the
\* heuristic h, in the order of its loop over items.
HeurItems(toks, h) ==
    LET wti      == word_token_idx_of(toks)
        items    == collapse_with_spans(word_norm_of(toks))
        filtered == SelectSeq(items, LAMBDA it : IsContent(it.lex))
        utter_standalone ==
            Len(filtered) > 0 /\ \A k \in 1..Len(filtered) : filtered[k].lex \in KINSHIP_SET
        kin      == SelectSeq(items, LAMBDA it : it.lex \in KINSHIP_SET)
    IN  [k \in 1..Len(kin) |->
           LET it         == kin[k]
               start_tok  == wti[it.s]
               end_tok    == wti[it.e]
               comma      == is_comma_adjacent(toks, start_tok, end_tok)
               is_initial == Len(filtered) > 0 /\ it.s = filtered[1].s
           IN  [lex |-> it.lex, s |-> it.s, e |-> it.e,
                start_tok |-> start_tok, end_tok |-> end_tok,
                is_voc |-> HeurIsVoc(h, comma, utter_standalone, is_initial)]]

\* voc_counts (voc = TRUE) or arg_counts after the increments of the items.
RECURSIVE HeurBump(_, _, _)
HeurBump(counter, its, voc) ==
    IF Len(its) = 0 THEN counter
    ELSE HeurBump(IF Head(its).is_voc = voc THEN Inc(counter, Head(its).lex) ELSE counter,
                  Tail(its), voc)

InitHeur ==
    /\ IdleBut("heur")
    /\ heuristic \in Heuristics
    /\ hvoc = ZeroCounter /\ harg = ZeroCounter
    /\ htokens = <<>> /\ hitems = <<>> /\ hdone = FALSE

\* The line loop of compute_counts on the first speaker line.
CountLine ==
    /\ ~hdone
    /\ \E k \in 0..MaxLen : \E toks \in [1..k -> HeurVocab] :
          \E its \in {HeurItems(toks, heuristic)} :
             /\ hvoc' = HeurBump(hvoc, its, TRUE)
             /\ harg' = HeurBump(harg, its, FALSE)
             /\ hitems' = its
             /\ htokens' = toks
    /\ hdone' = TRUE
    /\ UNCHANGED <<heuristic, notHeur>>

NextHeur == CountLine

SpecHeur == InitHeur /\ [][NextHeur]_vars

(***************************************************************************)
(* reservoir_add (sample_childes_vocative_manual_check.py)                 *)
(***************************************************************************)
\* Largest stratum size k and longest stream of occurrences.
MaxK == 2

MaxOffers == 5

\* The reservoir that takes to replacing one item too early.
reservoir_add_short(sample, n, item, k) ==
    IF Len(sample) + 1 < k THEN {Append(sample, item)}
    ELSE {IF j < k THEN [sample EXCEPT ![j + 1] = item] ELSE sample : j \in 0..n - 1}

\* The reservoir that still appends when it is full.
reservoir_add_grow(sample, n, item, k) ==
    IF Len(sample) <= k THEN {Append(sample, item)}
    ELSE {IF j < k THEN [sample EXCEPT ![j + 1] = item] ELSE sample : j \in 0..n - 1}

\* samples[key] after reservoir_add; n is counts[key] after its increment.
\* random.randrange(n) may return any j in 0..n-1.
reservoir_add(sample, n, item, k) ==
    IF Len(sample) < k THEN {Append(sample, item)}
    ELSE {IF j < k THEN [sample EXCEPT ![j + 1] = item] ELSE sample : j \in 0..n - 1}

RECURSIVE SumCounts(_, _)
SumCounts(cnt, keys) ==
    IF keys = {} THEN 0
    ELSE LET key == CHOOSE x \in keys : TRUE
         IN  cnt[key] + SumCounts(cnt, keys \ {key})

InitReservoir ==
    /\ IdleBut("reservoir")
    /\ samples = [key \in Strata |-> <<>>]
    /\ counts = [key \in Strata |-> 0]
    /\ offered = [key \in Strata |-> <<>>]
    /\ n_per_stratum \in 0..MaxK

\* compute() finds the next kinship occurrence, of stratum key, and offers
\* it; an item is named by its place in the stream.
Offer ==
    /\ SumCounts(counts, Strata) < MaxOffers
    /\ \E key \in Strata :
          LET item == SumCounts(counts, Strata) + 1
              n    == counts[key] + 1
          IN  /\ counts' = [counts EXCEPT ![key] = n]
              /\ \E new \in reservoir_add(samples[key], n, item, n_per_stratum) :
                    samples' = [samples EXCEPT ![key] = new]
              /\ offered' = [offered EXCEPT ![key] = Append(@, item)]
    /\ UNCHANGED <<n_per_stratum, notReservoir>>

NextReservoir == Offer

SpecReservoir == InitReservoir /\ [][NextReservoir]_vars

\* cat of compute() in the sampler, written as 'category' on the record of
\* an occurrence of lex.
sampler_category(lex) == IF lex \in PARENT_SET THEN "parent" ELSE "extended"

\* categorize of vocative_uncertainty_analysis.py
categorize(term) ==
    IF term \in PARENT_SET THEN "parent"
    ELSE IF term \in GRANDPARENT_SET THEN "grandparent"
    ELSE "extended"

(***************************************************************************)
(* confusion_from_labels (vocative_uncertainty_analysis.py)                *)
(***************************************************************************)
\* Rows of the labels file read in one call.
MaxRows == 2

\* s.strip(), for the blank
RECURSIVE Strip(_)
Strip(s) ==
    IF Len(s) > 0 /\ SubSeq(s, 1, 1) = " " THEN Strip(SubSeq(s, 2, Len(s)))
    ELSE IF Len(s) > 0 /\ SubSeq(s, Len(s), Len(s)) = " " THEN Strip(DropLast(s, 1))
    ELSE s

\* normalize_label; "none" stands for None.
normalize_label(val) ==
    LET v == Lower(Strip(val))
    IN  IF StartsWith(v, "v") THEN "vocative"
        ELSE IF StartsWith(v, "a") THEN "argument"
        ELSE IF v \in {"ambig", "ambiguous", "uncertain"} THEN "ambiguous"
        ELSE "none"

\* The rows a labels file holds: the category, the predicted class and the
\* manual label columns.
Rows ==
    [category : {"parent", "extended", "grandparent"},
     class : {"vocative", "argument"},
     manual_label : {"vocative", "argument", "ambig", "ambiguous", "uncertain",
                     " Uncertain", "?"}]

\* conf after one iteration of the row loop.
ConfusionStep(cf, r, policy) ==
    LET cat_raw == Lower(Strip(r.category))
        pred    == normalize_label(r.class)
        true0   == normalize_label(r.manual_label)
        true    == IF true0 = "ambiguous"
                   THEN (IF policy = "voc" THEN "vocative" ELSE "argument")
                   ELSE true0
        cell    == IF pred = "vocative"
                   THEN (IF true = "vocative" THEN "tp" ELSE "fp")
                   ELSE (IF true = "vocative" THEN "fn" ELSE "tn")
    IN  IF cat_raw \notin DOMAIN cf THEN cf
        ELSE IF true0 = "ambiguous" /\ policy = "drop" THEN cf
        ELSE IF pred \notin {"vocative", "argument"} \/ true \notin {"vocative", "argument"}
        THEN cf
        ELSE [cf EXCEPT ![cat_raw][cell] = @ + 1]

InitConfusion ==
    /\ IdleBut("confusion")
    /\ ambiguous \in {"drop", "voc", "arg"}
    /\ conf = ZeroConf /\ conf_before = ZeroConf
    /\ row = NoRow /\ nrows = 0

ReadRow ==
    /\ nrows < MaxRows
    /\ \E r \in Rows :
          /\ conf' = ConfusionStep(conf, r, ambiguous)
          /\ row' = r
    /\ conf_before' = conf
    /\ nrows' = nrows + 1
    /\ UNCHANGED <<ambiguous, notConfusion>>

NextConfusion == ReadRow

SpecConfusion == InitConfusion /\ [][NextConfusion]_vars

(***************************************************************************)
(* main() of vocative_uncertainty_analysis.py                              *)
(***************************************************************************)
Effect(kind, what) == [kind |-> kind, what |-> what]

InitMain ==
    /\ IdleBut("main")
    /\ args \in [ArgNames -> BOOLEAN]
    /\ pc = "parse_args"
    /\ effects = <<>>

\* load_observed_counts, aggregate_by_category and the parsing of --prior.
LoadObserved ==
    /\ pc = "parse_args"
    /\ effects' = effects \o <<Effect("read", "observed"), Effect("compute", "aggregate"),
                               Effect("compute", "prior")>>
    /\ pc' = "confusion"
    /\ UNCHANGED <<args, notMain>>

\* conf from the labels file, or from the two --confusion options, or the
\* SystemExit when neither is given.
BuildConfusion ==
    /\ pc = "confusion"
    /\ IF args["labels"]
       THEN /\ effects' = effects \o <<Effect("read", "labels"),
                                       Effect("compute", "confusion_from_labels")>>
            /\ pc' = "simulate"
       ELSE IF ~args["confusion_parent"] \/ ~args["confusion_extended"]
       THEN /\ pc' = "aborted"
            /\ UNCHANGED effects
       ELSE /\ effects' = effects \o <<Effect("compute", "parse_confusion")>>
            /\ pc' = "simulate"
    /\ UNCHANGED <<args, notMain>>

Simulate ==
    /\ pc = "simulate"
    /\ effects' = Append(effects, Effect("compute", "simulate_corrections"))
    /\ pc' = "write_out"
    /\ UNCHANGED <<args, notMain>>

WriteOut ==
    /\ pc = "write_out"
    /\ effects' = Append(effects, Effect("write", "out"))
    /\ pc' = "samples_out"
    /\ UNCHANGED <<args, notMain>>

WriteSamples ==
    /\ pc = "samples_out"
    /\ effects' = IF args["samples_out"]
                  THEN Append(effects, Effect("write", "samples_out")) ELSE effects
    /\ pc' = "sensitivity"
    /\ UNCHANGED <<args, notMain>>

\* The sensitivity analysis, or the SystemExit when --root is missing.
Sensitivity ==
    /\ pc = "sensitivity"
    /\ IF ~args["sensitivity_out"]
       THEN pc' = "done" /\ UNCHANGED effects
       ELSE IF ~args["root"]
       THEN pc' = "aborted" /\ UNCHANGED effects
       ELSE /\ effects' = effects \o <<Effect("read", "root"),
                                       Effect("compute", "compute_counts"),
                                       Effect("write", "sensitivity_out")>>
            /\ pc' = "done"
    /\ UNCHANGED <<args, notMain>>

NextMain ==
    \/ LoadObserved
    \/ BuildConfusion
    \/ Simulate
    \/ WriteOut
    \/ WriteSamples
    \/ Sensitivity

SpecMain == InitMain /\ [][NextMain]_vars

(***************************************************************************)
(* Rates, percentages and ratios derived from counts                       *)
(***************************************************************************)
\* Largest count a rate is computed from.
MaxCount == 2

\* A float: the quotient n / d, math.inf, or no value because the division
\* raised ZeroDivisionError.
Num(n, d) == [kind |-> "num", n |-> n, d |-> d]

Inf == [kind |-> "inf", n |-> 0, d |-> 0]

Raised == [kind |-> "ZeroDivisionError", n |-> 0, d |-> 0]

\* a / b
Quot(a, b) == IF b = 0 THEN Raised ELSE Num(a, b)

\* The division without its guard.
RateUnguarded(a, b) == Quot(a, b)

\* (a / b) if b else 0
RateOrZero(a, b) == IF b # 0 THEN Quot(a, b) ELSE Num(0, 1)

\* rng.betavariate: a draw, in quarters.
Quarters == {1, 2, 3}

\* rate of one category for one draw of simulate_corrections:
\* true_voc = pred_voc * ppv + pred_arg * fov; true_voc / total if total else 0.0
true_voc_rate(pred_voc, pred_arg, ppv, fov) ==
    RateOrZero(pred_voc * ppv + pred_arg * fov, 4 * (pred_voc + pred_arg))

\* p / e if e > 0 else math.inf
ratio_of(p, e) ==
    IF e.n > 0 THEN Quot(p.n * e.d, p.d * e.n) ELSE Inf

\* The inputs of the four writers.
PerMillionInputs ==
    [fn : {"per_million"}, count : 0..MaxCount, surface_total : 0..MaxCount]

SensitivityInputs ==
    [fn : {"vocative_percent"}, voc : 0..MaxCount, arg : 0..MaxCount]

AdjacencyInputs ==
    {r \in [fn : {"adjacency"}, vt : 0..MaxCount, vtb : 0..MaxCount,
            bt : 0..MaxCount, bpv : 0..MaxCount] : r.vtb <= r.vt /\ r.bpv <= r.bt}

SimulationInputs ==
    [fn : {"simulate"},
     parent_voc : 0..MaxCount, parent_arg : 0..MaxCount,
     extended_voc : 0..MaxCount, extended_arg : 0..MaxCount,
     parent_ppv : Quarters, parent_fov : Quarters,
     extended_ppv : Quarters, extended_fov : Quarters]

InitRates ==
    /\ IdleBut("rate")
    /\ rate_in \in PerMillionInputs \cup SensitivityInputs \cup AdjacencyInputs
                      \cup SimulationInputs
    /\ rate_out = <<>>

\* A per-million rate of the writer of compute_childes_kinship_vocative.py.
PerMillionRow ==
    /\ rate_in.fn = "per_million" /\ rate_out = <<>>
    /\ rate_out' = [name \in {"per_million"} |->
                      RateOrZero(rate_in.count * 1000000, rate_in.surface_total)]
    /\ UNCHANGED <<rate_in, notRate>>

\* A row of write_sensitivity.
SensitivityRow ==
    /\ rate_in.fn = "vocative_percent" /\ rate_out = <<>>
    /\ rate_out' = [name \in {"vocative_percent"} |->
                      RateOrZero(rate_in.voc * 100, rate_in.voc + rate_in.arg)]
    /\ UNCHANGED <<rate_in, notRate>>

\* A category aggregate of the adjacency summary.
AdjacencySummary ==
    /\ rate_in.fn = "adjacency" /\ rate_out = <<>>
    /\ rate_out' = [name \in {"pct_voc_then_bare", "pct_bare_after_voc"} |->
                      IF name = "pct_voc_then_bare"
                      THEN RateOrZero(100 * rate_in.vtb, rate_in.vt)
                      ELSE RateOrZero(100 * rate_in.bpv, rate_in.bt)]
    /\ UNCHANGED <<rate_in, notRate>>

\* One draw of simulate_corrections: the rate of each category and their
\* ratio.
SimulateDraw ==
    /\ rate_in.fn = "simulate" /\ rate_out = <<>>
    /\ \E p \in {true_voc_rate(rate_in.parent_voc, rate_in.parent_arg,
                               rate_in.parent_ppv, rate_in.parent_fov)} :
       \E e \in {true_voc_rate(rate_in.extended_voc, rate_in.extended_arg,
                               rate_in.extended_ppv, rate_in.extended_fov)} :
          rate_out' = [name \in {"parent_rate", "extended_rate", "ratio"} |->
                          IF name = "parent_rate" THEN p
                          ELSE IF name = "extended_rate" THEN e
                          ELSE ratio_of(p, e)]
    /\ UNCHANGED <<rate_in, notRate>>

NextRates ==
    \/ PerMillionRow
    \/ SensitivityRow
    \/ AdjacencySummary
    \/ SimulateDraw

SpecRates == InitRates /\ [][NextRates]_vars

(***************************************************************************)
(* compute() and main() over the files of a corpus                         *)
(* (compute_childes_kinship_vocative.py)                                   *)
(***************************************************************************)
\* Longest file, in lines.
MaxFileLines == 2

\* The paths of the transcripts under the corpus root.
Paths == {"a.cha", "b.cha"}

\* The lines of a transcript: a header line, a speaker line without its ':'
\* delimiter, a child's vocative.
HeaderLine ==
    [starts_with_star |-> FALSE, has_colon |-> FALSE, speaker |-> "",
     tokens |-> <<>>, mor_tokens |-> <<>>]

MalformedLine ==
    [starts_with_star |-> TRUE, has_colon |-> FALSE, speaker |-> "MOT",
     tokens |-> <<"ma">>, mor_tokens |-> <<>>]

VocativeLine ==
    [starts_with_star |-> TRUE, has_colon |-> TRUE, speaker |-> "CHI",
     tokens |-> <<"ma">>, mor_tokens |-> <<>>]

FileLines == {HeaderLine, MalformedLine, VocativeLine}

\* A file: its path, whether read_text succeeds, its lines.
Files ==
    [path : Paths, readable : BOOLEAN,
     lines : UNION {[1..k -> FileLines] : k \in 0..MaxFileLines}]

\* rglob yields the files in the order the file system lists them: any order.
InitWalk ==
    /\ IdleBut("walk") /\ ComputeIdle
    /\ walk_files \in {fs \in [1..Cardinality(Paths) -> Files] :
                          /\ \A j, k \in DOMAIN fs : j # k => fs[j].path # fs[k].path
                          /\ \A k \in DOMAIN fs : ~fs[k].readable => fs[k].lines = <<>>}
    /\ fi = 1 /\ li = 1 /\ walk_pc = "open" /\ visited = <<>>
    /\ skipped_files = 0 /\ skipped_lines = 0 /\ report = <<>>

\* Where the line loop goes on after a speaker line without ':' in a file of
\* n lines, had the IndexError not been caught at the line: past the end.
AfterMalformedAbandon(i, n) == n + 1

\* Where the line loop goes on after a speaker line without ':' (i += 1;
\* continue).
AfterMalformed(i, n) == i + 1

\* for f in files: lines = f.read_text(...); a read that raises is caught
\* and the loop goes to the next file.
OpenFile ==
    /\ walk_pc = "open" /\ fi <= Len(walk_files)
    /\ visited' = Append(visited, walk_files[fi].path)
    /\ IF walk_files[fi].readable
       THEN /\ walk_pc' = "lines" /\ li' = 1
            /\ UNCHANGED <<fi, skipped_files>>
       ELSE /\ fi' = fi + 1 /\ skipped_files' = skipped_files + 1
            /\ UNCHANGED <<walk_pc, li>>
    /\ UNCHANGED <<walk_files, skipped_lines, report, notWalk>>

\* A line that does not start with '*'.
SkipNonSpeaker ==
    /\ walk_pc = "lines" /\ li <= Len(walk_files[fi].lines)
    /\ ~walk_files[fi].lines[li].starts_with_star
    /\ li' = li + 1
    /\ UNCHANGED <<walk_files, fi, walk_pc, visited, skipped_files, skipped_lines, report,
                   notWalk>>

\* A speaker line without ':': line.split(':', 1)[1] raises, is caught.
SkipMalformed ==
    /\ walk_pc = "lines" /\ li <= Len(walk_files[fi].lines)
    /\ walk_files[fi].lines[li].starts_with_star
    /\ ~walk_files[fi].lines[li].has_colon
    /\ li' = AfterMalformed(li, Len(walk_files[fi].lines))
    /\ skipped_lines' = skipped_lines + 1
    /\ UNCHANGED <<walk_files, fi, walk_pc, visited, skipped_files, report,
                   notWalk>>

\* A speaker line: tokenised, walked and counted.
ClassifyLine ==
    /\ walk_pc = "lines" /\ li <= Len(walk_files[fi].lines)
    /\ walk_files[fi].lines[li].starts_with_star
    /\ walk_files[fi].lines[li].has_colon
    /\ Process(walk_files[fi].lines[li])
    /\ li' = li + 1
    /\ UNCHANGED <<walk_files, fi, walk_pc, visited, skipped_files, skipped_lines, report,
                   notComputeWalk>>

\* The while loop ends: the next file.
EndFile ==
    /\ walk_pc = "lines" /\ li > Len(walk_files[fi].lines)
    /\ fi' = fi + 1 /\ li' = 1 /\ walk_pc' = "open"
    /\ UNCHANGED <<walk_files, visited, skipped_files, skipped_lines, report,
                   notWalk>>

\* compute() returns; main() writes the table and prints surface_total, the
\* output path and the title+name exclusions.
Report ==
    /\ walk_pc = "open" /\ fi > Len(walk_files)
    /\ walk_pc' = "done"
    /\ report' = [name \in {"surface_total", "wrote", "title_name_excluded"} |->
                     IF name = "surface_total" THEN surface_total
                     ELSE IF name = "wrote" THEN 1
                     ELSE Total(arg_title_name_excluded)]
    /\ UNCHANGED <<walk_files, fi, li, visited, skipped_files, skipped_lines,
                   notWalk>>

NextWalk ==
    \/ OpenFile
    \/ SkipNonSpeaker
    \/ SkipMalformed
    \/ ClassifyLine
    \/ EndFile
    \/ Report

SpecWalk == InitWalk /\ [][NextWalk]_vars

(***************************************************************************)
(* spearman (plot_vocative_bare_correlation.py)                            *)
(***************************************************************************)
\* Longest dataset and largest value in it.
MaxData == 3

MaxValue == 3

\* sum(values)
RECURSIVE SumSeq(_)
SumSeq(values) == IF Len(values) = 0 THEN 0 ELSE Head(values) + SumSeq(Tail(values))

\* Ranks that give tied values the first of their positions instead of the
\* average, doubled.
ranks_first(values) ==
    [p \in 1..Len(values) |->
        2 * (Cardinality({q \in 1..Len(values) : values[q] < values[p]}) + 1)]

\* ranks(values), doubled to stay in the integers: the average rank of a
\* value with i values below it and j - i values equal to it is
\* (i + j - 1) / 2 + 1.
ranks(values) ==
    [p \in 1..Len(values) |->
        LET i == Cardinality({q \in 1..Len(values) : values[q] < values[p]})
            j == i + Cardinality({q \in 1..Len(values) : values[q] = values[p]})
        IN  (i + j - 1) + 2]

\* pearson(x, y) in exact arithmetic: None for no data or a zero deviation,
\* else the number num / (sqrt(sx) * sqrt(sy)), deviations scaled by n.
pearson(x, y) ==
    LET n  == Len(x)
        dx == [p \in 1..n |-> n * x[p] - SumSeq(x)]
        dy == [p \in 1..n |-> n * y[p] - SumSeq(y)]
        sx == SumSeq([p \in 1..n |-> dx[p] * dx[p]])
        sy == SumSeq([p \in 1..n |-> dy[p] * dy[p]])
    IN  IF n = 0 THEN [kind |-> "None"]
        ELSE IF sx = 0 \/ sy = 0 THEN [kind |-> "None"]
        ELSE [kind |-> "num", num |-> SumSeq([p \in 1..n |-> dx[p] * dy[p]]),
              sx |-> sx, sy |-> sy]

spearman(x, y) ==
    IF Len(x) = 0 THEN [kind |-> "None"] ELSE pearson(ranks(x), ranks(y))

\* y pairing x with its exact reverse order: the largest with the smallest.
ReversePairing(x) == [p \in 1..Len(x) |-> MaxValue + 1 - x[p]]

InitSpearman ==
    /\ IdleBut("spearman")
    /\ sp_x \in UNION {[1..n -> 1..MaxValue] : n \in 0..MaxData}
    /\ sp_y \in {sp_x, ReversePairing(sp_x)}
    /\ sp_out = [kind |-> "pending"]

Correlate ==
    /\ sp_out.kind = "pending"
    /\ sp_out' = spearman(sp_x, sp_y)
    /\ UNCHANGED <<sp_x, sp_y, notSpearman>>

NextSpearman == Correlate

SpecSpearman == InitSpearman /\ [][NextSpearman]_vars

(***************************************************************************)
(* classify_utterance and analyse() (adjacency_analysis.py)                *)
(***************************************************************************)
\* norm_surface of adjacency_analysis.py: the possessive is stripped from
\* kinship terms only, there is no -es step, and -s is not stripped from a
\* token that still ends in 's.
norm_surface_adjacency(tok) ==
    LET t0 == Lower(tok)
        t  == IF EndsWith(t0, "'s")
              THEN (IF DropLast(t0, 2) \in KINSHIP_SET THEN DropLast(t0, 2) ELSE t0)
              ELSE IF EndsWith(t0, "s'")
              THEN (IF DropLast(t0, 1) \in KINSHIP_SET THEN DropLast(t0, 1) ELSE t0)
              ELSE t0
    IN  IF EndsWith(t, "ies") /\ (DropLast(t, 3) \o "y") \in KINSHIP_SET
        THEN DropLast(t, 3) \o "y"
        ELSE IF /\ EndsWith(t, "s") /\ ~EndsWith(t, "'s")
                /\ DropLast(t, 1) \in KINSHIP_SET
                /\ Len(DropLast(t, 1)) >= MinBaseLen
        THEN DropLast(t, 1)
        ELSE t

\* The label classify_utterance gives the item whose first word is at idx
\* and whose tokens are start_tok..end_tok.
AdjacencyLabel(c, idx, start_tok, end_tok) ==
    IF c.utter_standalone \/ is_comma_adjacent(c.tokens, start_tok, end_tok) THEN "voc"
    ELSE IF idx > 1 /\ (c.word_norm[idx - 1] \in DETERMINERS \/ Genitive(c.word_raw[idx - 1]))
    THEN "det"
    ELSE IF Genitive(c.word_raw[idx]) THEN "det"
    ELSE "bare"

\* while idx < n of classify_utterance: the items found from idx on, each
\* with its label.
RECURSIVE AdjacencyFrom(_, _)
AdjacencyFrom(c, idx) ==
    IF idx > Len(c.word_norm) THEN <<>>
    ELSE IF /\ idx + 1 <= Len(c.word_norm)
            /\ <<c.word_norm[idx], c.word_norm[idx + 1]>> \in MULTIWORD_KEYS
    THEN (LET lex == MULTIWORD(<<c.word_norm[idx], c.word_norm[idx + 1]>>)
          IN  IF lex \in KINSHIP_SET
              THEN <<[lex |-> lex,
                      label |-> AdjacencyLabel(c, idx, c.word_token_idx[idx],
                                               c.word_token_idx[idx + 1])]>>
              ELSE <<>>)
         \o AdjacencyFrom(c, idx + 2)
    ELSE (IF c.word_norm[idx] \in KINSHIP_SET
          THEN <<[lex |-> c.word_norm[idx],
                  label |-> AdjacencyLabel(c, idx, c.word_token_idx[idx],
                                           c.word_token_idx[idx])]>>
          ELSE <<>>)
         \o AdjacencyFrom(c, idx + 1)

NoTerms == [voc |-> {}, bare |-> {}, det |-> {}]

\* classify_utterance on the tokens of an utterance: the sets of vocative,
\* bare-argument and determined-argument terms.
classify_tokens(toks) ==
    LET wti   == word_token_idx_of(toks)
        wn    == [k \in 1..Len(wti) |-> norm_surface_adjacency(toks[wti[k]])]
        c     == [tokens |-> toks, word_norm |-> wn,
                  word_raw |-> [k \in 1..Len(wti) |-> toks[wti[k]]],
                  word_token_idx |-> wti,
                  utter_standalone |-> utter_standalone_of(wn)]
        found == AdjacencyFrom(c, 1)
        With(label) == {found[k].lex : k \in {q \in 1..Len(found) : found[q].label = label}}
    IN  IF Len(wn) = 0 THEN NoTerms
        ELSE [voc |-> With("voc"), bare |-> With("bare"), det |-> With("det")]

\* Speaker lines of a file: a standalone vocative, a bare argument, a
\* determined argument, a vocative and a bare argument of the same term, a
\* vocative of another term, and a line without a colon.
AdjacencyUtterances ==
    {<<"ma">>, <<"see", "ma">>, <<"my", "ma">>, <<"ma", ",", "see", "ma">>, <<"Auntie">>}

AdjacencyLines ==
    {[has_colon |-> TRUE, tokens |-> u] : u \in AdjacencyUtterances}
        \cup {[has_colon |-> FALSE, tokens |-> <<"ma">>]}

\* classify_tokens is a function of the utterance: tabulated once.
ClassTable == [u \in AdjacencyUtterances |-> classify_tokens(u)]

\* classify_utterance(line): no term at all for a line that split(':', 1)
\* cannot cut.
classify_utterance(l) ==
    IF ~l.has_colon THEN NoTerms
    ELSE ClassTable[l.tokens]

AdjacencyCounters ==
    {"voc_then_bare", "voc_then_det", "voc_then_voc", "voc_then_none",
     "voc_total", "bare_total", "bare_preceded_by_voc", "bare_not_preceded"}

ZeroAdjacency == [name \in AdjacencyCounters |-> ZeroCounter]

\* for t in terms: counter[t] += 1
IncEach(counter, terms) ==
    [k \in DOMAIN counter \cup terms |-> Get(counter, k) + (IF k \in terms THEN 1 ELSE 0)]

\* The look-back that also needs an utterance before the previous one.
prev_of_second(utts, i) == IF i > 2 THEN <<utts[i - 1]>> ELSE <<>>

\* utts[i - 1] under the guard i > 0 (0-based), else nothing.
prev_of(utts, i) == IF i > 1 THEN <<utts[i - 1]>> ELSE <<>>

\* The look-ahead that wraps around to the first utterance of the file.
next_of_wrapping(utts, i) == IF i + 1 <= Len(utts) THEN <<utts[i + 1]>> ELSE <<utts[1]>>

\* utts[i + 1] under the guard i + 1 < len(utts), else nothing.
next_of(utts, i) == IF i + 1 <= Len(utts) THEN <<utts[i + 1]>> ELSE <<>>

\* The terms the Counter name is incremented for, given the sets of the
\* current utterance, of the previous one (back) and of the next one (fwd).
TransitionTerms(name, cur, back, prev_voc, fwd, nxt) ==
    CASE name = "voc_total" -> cur.voc
      [] name = "bare_total" -> cur.bare
      [] name = "bare_preceded_by_voc" ->
             IF back THEN cur.bare \cap prev_voc ELSE {}
      [] name = "bare_not_preceded" ->
             IF back THEN cur.bare \ prev_voc ELSE {}
      [] name = "voc_then_bare" ->
             IF fwd THEN cur.voc \cap nxt.bare ELSE {}
      [] name = "voc_then_det" ->
             IF fwd THEN (cur.voc \ nxt.bare) \cap nxt.det ELSE {}
      [] name = "voc_then_voc" ->
             IF fwd THEN ((cur.voc \ nxt.bare) \ nxt.det) \cap nxt.voc ELSE {}
      [] name = "voc_then_none" ->
             IF fwd THEN ((cur.voc \ nxt.bare) \ nxt.det) \ nxt.voc ELSE {}

\* The terms one iteration of the loop over utts adds to the named Counter.
AdjacencyTerms(name, utts, i) ==
    LET cls == [l \in {utts[j] : j \in DOMAIN utts} |-> classify_utterance(l)]
        pv  == prev_of(utts, i)
        nx  == next_of(utts, i)
    IN  TransitionTerms(name, cls[utts[i]],
                        Len(pv) > 0 /\ cls[utts[i]].bare # {},
                        IF Len(pv) > 0 THEN cls[pv[1]].voc ELSE {},
                        cls[utts[i]].voc # {} /\ Len(nx) > 0,
                        IF Len(nx) > 0 THEN cls[nx[1]] ELSE NoTerms)

\* The Counters after iteration i of the loop over the utterances of a file.
analyse_step(counters, utts, i) ==
    [name \in AdjacencyCounters |-> IncEach(counters[name], AdjacencyTerms(name, utts, i))]

\* Longest file, in speaker lines.
MaxUtts == 3

\* A corpus: a file of up to MaxUtts speaker lines and, after it in path
\* order, a file of one speaker line or none.
Corpora ==
    {<<a, b>> : a \in UNION {[1..n -> AdjacencyLines] : n \in 0..MaxUtts},
                b \in UNION {[1..n -> AdjacencyLines] : n \in 0..1}}

InitAdjacency ==
    /\ IdleBut("adjacency")
    /\ adj_corpus \in Corpora
    /\ adj_f = 1 /\ adj_i = 1 /\ adj = ZeroAdjacency /\ adj_pc = "walk"
    /\ listing = <<>> /\ listed = 0

\* for i, line in enumerate(utts): one iteration.
AnalyseUtterance ==
    /\ adj_pc = "walk" /\ adj_f <= Len(adj_corpus)
    /\ adj_i <= Len(adj_corpus[adj_f])
    /\ adj' = analyse_step(adj, adj_corpus[adj_f], adj_i)
    /\ adj_i' = adj_i + 1
    /\ UNCHANGED <<adj_corpus, adj_f, adj_pc, listing, listed, notAdjacency>>

\* for f in files: the next file, its utterances read anew.
AnalyseNextFile ==
    /\ adj_pc = "walk" /\ adj_f <= Len(adj_corpus)
    /\ adj_i > Len(adj_corpus[adj_f])
    /\ adj_f' = adj_f + 1
    /\ adj_i' = 1
    /\ UNCHANGED <<adj_corpus, adj, adj_pc, listing, listed, notAdjacency>>

\* return {...}
AnalyseReturn ==
    /\ adj_pc = "walk" /\ adj_f > Len(adj_corpus)
    /\ adj_pc' = "done"
    /\ UNCHANGED <<adj_corpus, adj_f, adj_i, adj, listing, listed, notAdjacency>>

NextAdjacency ==
    \/ AnalyseUtterance
    \/ AnalyseNextFile
    \/ AnalyseReturn

SpecAdjacency == InitAdjacency /\ [][NextAdjacency]_vars

\* The occurrences compute() counts on a speaker line without a %mor tier,
\* tabulated for the lines of the corpora.
OccTable == [u \in AdjacencyUtterances |-> ClassifyUtterance(u, <<>>)]

OccsOf(l) ==
    IF l.tokens \in AdjacencyUtterances THEN OccTable[l.tokens]
    ELSE ClassifyUtterance(l.tokens, <<>>)

SurfaceTable == [u \in AdjacencyUtterances |-> SurfaceWords(u)]

\* compute() on the lines of a file from line k on, the named Counter
\* started anew for the file.
RECURSIVE CountFileAnew(_, _, _, _)
CountFileAnew(counter, lines, k, name) ==
    IF k > Len(lines) THEN ZeroCounter
    ELSE LET rest == CountFileAnew(counter, lines, k + 1, name)
         IN  IF lines[k].has_colon
             THEN Bump(rest, OccsOf(lines[k]), name, FALSE)
             ELSE rest

\* compute() on the lines of a file from line k on: the named Counter after
\* the speaker lines of the file, those without a colon skipped.
RECURSIVE CountFile(_, _, _, _)
CountFile(counter, lines, k, name) ==
    IF k > Len(lines) THEN counter
    ELSE CountFile(IF lines[k].has_colon
                       THEN Bump(counter, OccsOf(lines[k]), name, FALSE)
                       ELSE counter,
                   lines, k + 1, name)

\* surface_total's increment over the lines of a file from line k on.
RECURSIVE SurfaceFile(_, _)
SurfaceFile(lines, k) ==
    IF k > Len(lines) THEN 0
    ELSE (IF lines[k].has_colon THEN SurfaceTable[lines[k].tokens] ELSE 0)
             + SurfaceFile(lines, k + 1)

\* The corpus of analyse(), listed to compute() in either order.
InitMerge ==
    /\ IdleBut("adjacency")
    /\ adj_corpus \in Corpora
    /\ adj_f = 1 /\ adj_i = 1 /\ adj = ZeroAdjacency /\ adj_pc = "walk"
    /\ listing \in {<<1, 2>>, <<2, 1>>}
    /\ listed = 0

\* for f in files of compute(): the whole of the next file of the listing.
ComputeFile ==
    /\ listed < Len(listing)
    /\ \E lines \in {adj_corpus[listing[listed + 1]]} :
          /\ voc_counts' = CountFile(voc_counts, lines, 1, "voc_counts")
          /\ voc_chi_counts' = CountFile(voc_chi_counts, lines, 1, "voc_chi_counts")
          /\ voc_adu_counts' = CountFile(voc_adu_counts, lines, 1, "voc_adu_counts")
          /\ arg_counts' = CountFile(arg_counts, lines, 1, "arg_counts")
          /\ arg_bare_counts' = CountFile(arg_bare_counts, lines, 1, "arg_bare_counts")
          /\ arg_det_counts' = CountFile(arg_det_counts, lines, 1, "arg_det_counts")
          /\ arg_title_name_excluded' =
                 CountFile(arg_title_name_excluded, lines, 1, "arg_title_name_excluded")
          /\ surface_total' = surface_total + SurfaceFile(lines, 1)
          /\ nlines' = nlines + Cardinality({k \in 1..Len(lines) : lines[k].has_colon})
    /\ listed' = listed + 1
    /\ UNCHANGED <<line, occs, standalone, kin_items>>
    /\ UNCHANGED <<adj_corpus, adj_f, adj_i, adj, adj_pc, listing, notComputeAdjacency>>

\* analyse() on the same root, once compute() has returned.
AnalyseAfterCompute ==
    /\ listed = Len(listing)
    /\ NextAdjacency

NextMerge ==
    \/ ComputeFile
    \/ AnalyseAfterCompute

SpecMerge == InitMerge /\ [][NextMerge]_vars

(***************************************************************************)
(* The surface counts of compute() (compute_childes_kinship.py)            *)
(***************************************************************************)
\* KINSHIP + NONKIN + BENCH
LEXEME_SET ==
    KINSHIP_SET
        \cup {"teacher", "doctor", "boss", "neighbor", "friend", "waiter", "nurse",
              "police", "baby", "kid"}
        \cup {"the", "and", "to", "of", "in", "that"}

\* VARIANT_MAP.get(t, t)
VARIANT_MAP(t) == IF t \in {"neighbour", "neighbours"} THEN "neighbor" ELSE t

\* norm_surface of compute_childes_kinship.py: the steps of the classifier's
\* norm_surface over LEXEME_SET, then the spelling variants.
norm_surface_frequency(tok) ==
    LET t0 == Lower(tok)
        t  == IF EndsWith(t0, "'s")
              THEN (IF DropLast(t0, 2) \in LEXEME_SET \cup MULTI_COMPONENTS
                    THEN DropLast(t0, 2) ELSE t0)
              ELSE IF EndsWith(t0, "s'")
              THEN (IF DropLast(t0, 1) \in LEXEME_SET \cup MULTI_COMPONENTS
                    THEN DropLast(t0, 1) ELSE t0)
              ELSE t0
    IN  IF EndsWith(t, "ies") /\ (DropLast(t, 3) \o "y") \in LEXEME_SET
        THEN VARIANT_MAP(DropLast(t, 3) \o "y")
        ELSE IF /\ EndsWith(t, "es") /\ DropLast(t, 2) \in LEXEME_SET
                /\ Len(DropLast(t, 2)) >= MinBaseLen
        THEN VARIANT_MAP(DropLast(t, 2))
        ELSE IF /\ EndsWith(t, "s") /\ DropLast(t, 1) \in LEXEME_SET
                /\ Len(DropLast(t, 1)) >= MinBaseLen
        THEN VARIANT_MAP(DropLast(t, 1))
        ELSE VARIANT_MAP(t)

\* while i < n over the words WORD_RE finds: the lexemes surface_counts is
\* incremented for, from word i on.  A noise word is stepped over; a
\* compound needs the very next word not to be noise.
RECURSIVE SurfaceFrom(_, _)
SurfaceFrom(words, i) ==
    IF i > Len(words) THEN <<>>
    ELSE IF Noise(words[i]) THEN SurfaceFrom(words, i + 1)
    ELSE LET t1  == norm_surface_frequency(words[i])
             key == <<t1, IF i + 1 <= Len(words)
                          THEN norm_surface_frequency(words[i + 1]) ELSE "">>
         IN  IF /\ i + 1 <= Len(words)
                /\ ~Noise(words[i + 1])
                /\ key \in MULTIWORD_KEYS
                /\ MULTIWORD(key) \in LEXEME_SET
             THEN <<MULTIWORD(key)>> \o SurfaceFrom(words, i + 2)
             ELSE (IF t1 \in LEXEME_SET THEN <<t1>> ELSE <<>>) \o SurfaceFrom(words, i + 1)

\* surface_counts and surface_total of compute_childes_kinship.py after one
\* speaker line with the tokens toks.
surface_counts_of(toks) ==
    LET found == SurfaceFrom(SelectSeq(toks, WORD_RE), 1)
    IN  [t \in {found[k] : k \in 1..Len(found)} |->
            Cardinality({k \in 1..Len(found) : found[k] = t})]

surface_total_of(toks) ==
    Cardinality({k \in 1..Len(toks) : WORD_RE(toks[k]) /\ ~Noise(toks[k])})

(***************************************************************************)
(* conf on its way to simulate_corrections                                 *)
(* (main() of vocative_uncertainty_analysis.py)                            *)
(***************************************************************************)
\* The comma-separated parts of a --confusion option: numerals, a negative
\* numeral and a part that is no numeral.
Parts == {"0", "2", "-1", "x"}

\* int(p) for the parts int() accepts.
IntOf == [p \in {"0", "2", "-1"} |-> IF p = "0" THEN 0 ELSE IF p = "2" THEN 2 ELSE 0 - 1]

ValueError == [error |-> "ValueError"]

\* parse_confusion on the parts of its argument.
parse_confusion(parts) ==
    IF Len(parts) # 4 THEN ValueError
    ELSE IF \E k \in 1..4 : parts[k] \notin DOMAIN IntOf THEN ValueError
    ELSE [tp |-> IntOf[parts[1]], fp |-> IntOf[parts[2]],
          fn |-> IntOf[parts[3]], tn |-> IntOf[parts[4]]]

\* The values the options take: three or four parts for the parent, a valid
\* value, a negative count or a non-numeral for the extended.
ParentOptions == [1..3 -> Parts] \cup [1..4 -> Parts]

ExtendedOptions ==
    {<<"0", "2", "0", "2">>, <<"2", "-1", "0", "0">>, <<"x", "0", "0", "0">>}

InitHandover ==
    /\ IdleBut("handover")
    /\ use_labels \in BOOLEAN
    /\ IF use_labels
       THEN opt_parent = <<>> /\ opt_extended = <<>>
       ELSE opt_parent \in ParentOptions /\ opt_extended \in ExtendedOptions
    /\ conf_pc = "build" /\ handed = <<>>

\* confusion_from_labels reads one more row of the labels file.
LabelsRow ==
    /\ use_labels /\ conf_pc = "build"
    /\ nrows < MaxRows
    /\ \E r \in Rows :
          /\ conf' = ConfusionStep(conf, r, ambiguous)
          /\ row' = r
    /\ conf_before' = conf
    /\ nrows' = nrows + 1
    /\ UNCHANGED <<ambiguous, notConfusion>>

\* confusion_from_labels returns; simulate_corrections is called with conf.
HandOverLabels ==
    /\ use_labels /\ conf_pc = "build"
    /\ handed' = conf
    /\ conf_pc' = "simulate"
    /\ UNCHANGED <<use_labels, opt_parent, opt_extended, notHandover>>

\* conf from the two options: a ValueError of parse_confusion ends the run,
\* otherwise simulate_corrections is called with what was parsed.
HandOverOptions ==
    /\ ~use_labels /\ conf_pc = "build"
    /\ \E cp \in {parse_confusion(opt_parent)} : \E ce \in {parse_confusion(opt_extended)} :
          IF cp = ValueError \/ ce = ValueError
          THEN conf_pc' = "ValueError" /\ UNCHANGED handed
          ELSE /\ handed' = [cat \in {"parent", "extended"} |->
                                IF cat = "parent" THEN cp ELSE ce]
               /\ conf_pc' = "simulate"
    /\ UNCHANGED <<use_labels, opt_parent, opt_extended, notHandover>>

NextHandover ==
    \/ LabelsRow
    \/ HandOverLabels
    \/ HandOverOptions

SpecHandover == InitHandover /\ [][NextHandover]_vars

(***************************************************************************)
(* Properties of compute()                                                 *)
(***************************************************************************)
\* C1: after any sequence of processed utterances, for every term the argument
\* count is the sum of the bare and determined counts, the vocative count is
\* the sum of the child and adult vocative counts, and vocative + bare +
\* determined over all terms is the number of kinship items of the
\* compound-collapsed word sequences: every occurrence incremented exactly one
\* of the three.
C1_CountsPartition ==
    /\ \A t \in KINSHIP_SET :
          /\ Get(arg_counts, t) = Get(arg_bare_counts, t) + Get(arg_det_counts, t)
          /\ Get(voc_counts, t) = Get(voc_chi_counts, t) + Get(voc_adu_counts, t)
    /\ Total(voc_counts) + Total(arg_bare_counts) + Total(arg_det_counts) = kin_items
    /\ DOMAIN voc_counts \cup DOMAIN arg_counts \subseteq KINSHIP_SET

\* Two lines processed: a vocative of the child and a determined argument,
\* a compound among the terms counted.
C1_Witness ==
    /\ nlines = 2
    /\ Total(voc_chi_counts) > 0
    /\ Total(arg_det_counts) > 0
    /\ "grandma" \in DOMAIN voc_counts \cup DOMAIN arg_counts
    /\ kin_items >= 2

\* The words an occurrence spans, as positions of word_norm / word_raw.
FirstWord(o) == o.idx

LastWord(o) == IF o.multi THEN o.idx + 1 ELSE o.idx

\* C2 as stated: the collapsed items that are neither discourse particles nor
\* noise are at least one and are all kinship terms.
StandaloneStated(toks) ==
    LET items   == collapse_with_spans(word_norm_of(toks))
        content == {k \in 1..Len(items) :
                       items[k].lex \notin DISCOURSE /\ ~NOISE_RE(items[k].lex)}
    IN  content # {} /\ \A k \in content : items[k].lex \in KINSHIP_SET

\* C2: the utterance-standalone flag is true exactly when the collapsed
\* sequence of normalized words, discourse particles and noise tokens removed,
\* is non-empty and holds kinship terms only; then every kinship occurrence of
\* the utterance is labelled vocative.
C2_StandaloneVocative ==
    nlines = 1 =>
        /\ standalone <=> StandaloneStated(line.tokens)
        /\ standalone =>
              /\ Len(occs) = KinshipItems(line.tokens)
              /\ Len(occs) >= 1
              /\ \A k \in 1..Len(occs) : occs[k].label = "voc"

\* A standalone utterance with a discourse particle and a noise token around
\* its kinship term, as in "hi Mommy !".
C2_Witness ==
    /\ nlines = 1
    /\ standalone
    /\ \E i, j \in 1..Len(line.tokens) : line.tokens[i] = "hi" /\ line.tokens[j] = "xxx"
    /\ \E k \in 1..Len(occs) : occs[k].label = "voc" /\ occs[k].lex = "auntie"

\* The determiner rule as C3 states it, for an occurrence of the line: the
\* term bears genitive marking, or the word before it is a determiner or
\* bears genitive marking, or the three items before it are a determiner (or
\* a genitive), a kinship term and a conjunction.
DeterminedStated(toks, o) ==
    LET wn    == word_norm_of(toks)
        wr    == word_raw_of(toks)
        items == collapse_with_spans(wn)
        m     == CHOOSE k \in 1..Len(items) : items[k].s = FirstWord(o)
        IsDeterminerWord(k) == wn[k] \in DETERMINERS \/ has_genitive(wr[k])
    IN  \/ \E k \in FirstWord(o)..LastWord(o) : has_genitive(wr[k])
        \/ FirstWord(o) > 1 /\ IsDeterminerWord(FirstWord(o) - 1)
        \/ /\ m >= 4
           /\ items[m - 1].lex \in CONJ
           /\ items[m - 2].lex \in KINSHIP_SET
           /\ items[m - 3].s = items[m - 3].e
           /\ IsDeterminerWord(items[m - 3].s)

\* C3: every non-vocative kinship occurrence, single-token or compound, is
\* labelled determined when the determiner rule holds of it, and bare
\* otherwise unless the title+name override fired.
C3_DeterminerRule ==
    nlines = 1 =>
        \A k \in 1..Len(occs) :
            occs[k].label # "voc" =>
                IF DeterminedStated(line.tokens, occs[k]) THEN occs[k].label = "det"
                ELSE occs[k].title_name \/ occs[k].label = "bare"

\* The entry of the %mor tier right after the entries of the occurrence's own
\* words carries the proper-noun tag (the tier is aligned word by word).
ProperNounFollows(l, o) ==
    /\ LastWord(o) + 1 <= Len(l.mor_tokens)
    /\ l.mor_tokens[LastWord(o) + 1][1] = "n:prop"

\* C4: a non-vocative occurrence of a title term, single-token or compound,
\* that has no determiner is counted determined, not bare, when the %mor tier
\* places an n:prop entry right after the term's own entry; without a %mor
\* tier the override never fires and the determiner rule alone decides.
C4_TitleNameOverride ==
    nlines = 1 =>
        \A k \in 1..Len(occs) :
            LET o   == occs[k]
                det == has_determiner(word_norm_of(line.tokens), word_raw_of(line.tokens), o.idx)
            IN  /\ (/\ o.label # "voc"
                    /\ o.lex \in TITLE_KINSHIP
                    /\ ~det
                    /\ ProperNounFollows(line, o)) => o.label = "det"
                /\ (o.label # "voc" /\ Len(line.mor_tokens) = 0) =>
                       /\ ~o.title_name
                       /\ o.label = (IF det THEN "det" ELSE "bare")

(***************************************************************************)
(* Properties of norm_surface and of the collapse                          *)
(***************************************************************************)
\* C5: norm_surface maps every possessive form (t's, ts') and every regular
\* plural form (ts, tes, final y replaced by ies) of a registered lexeme t of
\* at least three characters to t; and it strips no trailing s whose removal
\* leaves a two-character base.
C5_NormalizesForms ==
    norm_done =>
        /\ (/\ norm_base \in KINSHIP_SET
            /\ Len(norm_base) >= MinBaseLen
            /\ norm_form # "") => norm_out = norm_base
        /\ (EndsWith(norm_in, "s") /\ Len(norm_in) = MinBaseLen)
               => norm_out # DropLast(norm_in, 1)

\* The items of collapse_with_spans cover the positions of the input one
\* after the other: the first starts at 1, each starts right after the one
\* before it, the last ends at the last position.
SpansTile(spans, n) ==
    /\ (Len(spans) = 0) <=> (n = 0)
    /\ Len(spans) > 0 => spans[1].s = 1 /\ spans[Len(spans)].e = n
    /\ \A k \in 1..Len(spans) - 1 : spans[k + 1].s = spans[k].e + 1

\* C6: the collapse is idempotent and non-overlapping: collapsing its own
\* output changes nothing, no input position belongs to two items, every
\* compound covers exactly two consecutive input positions and every other
\* item exactly one; collapse_multiword and collapse_with_spans emit the
\* same lexemes.
C6_CollapseIdempotent ==
    col_done =>
        /\ col_twice = col_once
        /\ SpansTile(col_spans, Len(col_in))
        /\ Len(col_spans) = Len(col_once)
        /\ \A k \in 1..Len(col_spans) :
              LET it == col_spans[k]
              IN  /\ it.lex = col_once[k]
                  /\ \/ it.e = it.s /\ it.lex = col_in[it.s]
                     \/ /\ it.e = it.s + 1
                        /\ <<col_in[it.s], col_in[it.e]>> \in MULTIWORD_KEYS
                        /\ it.lex = MULTIWORD(<<col_in[it.s], col_in[it.e]>>)
        /\ collapse_multiword([k \in 1..Len(col_spans) |-> col_spans[k].lex]) = col_once

\* Two compounds collapsed out of four words, the first one after a stray
\* first part: the greedy scan had to skip a word before it matched.
C6_Witness ==
    /\ col_done
    /\ Len(col_in) = 4
    /\ Len(col_once) = 3
    /\ col_in[1] = "grand" /\ col_in[2] = "grand" /\ col_in[3] = "ma"
    /\ col_spans[2].e = col_spans[2].s + 1

(***************************************************************************)
(* Properties of compute_counts, reservoir_add, confusion_from_labels and  *)
(* main()                                                                  *)
(***************************************************************************)
\* A comma is the token right before or right after the item's tokens.
CommaStated(toks, o) ==
    \E q \in 1..Len(toks) : toks[q] = "," /\ (q = o.start_tok - 1 \/ q = o.end_tok + 1)

\* Every item before o in the collapsed utterance is a discourse particle or
\* a noise token.
FirstContentStated(toks, o) ==
    LET items == collapse_with_spans(word_norm_of(toks))
    IN  \A k \in 1..Len(items) :
           items[k].s < o.s => items[k].lex \in DISCOURSE \/ NOISE_RE(items[k].lex)

\* Every kinship item of the line is counted once, as vocative or as
\* argument.
CountedOnce ==
    /\ Len(hitems) = KinshipItems(htokens)
    /\ \A j, k \in 1..Len(hitems) : j < k => hitems[j].e < hitems[k].s
    /\ DOMAIN hvoc \cup DOMAIN harg \subseteq KINSHIP_SET
    /\ \A t \in KINSHIP_SET :
          /\ Get(hvoc, t) =
                Cardinality({k \in 1..Len(hitems) : hitems[k].lex = t /\ hitems[k].is_voc})
          /\ Get(harg, t) =
                Cardinality({k \in 1..Len(hitems) : hitems[k].lex = t /\ ~hitems[k].is_voc})

\* The variants as stated, given what counts as the utterance-initial item.
VariantStated(o, initial) ==
    IF heuristic = "strict" THEN CommaStated(htokens, o)
    ELSE IF heuristic = "default"
    THEN CommaStated(htokens, o) \/ StandaloneStated(htokens)
    ELSE CommaStated(htokens, o) \/ StandaloneStated(htokens) \/ initial

\* C7 as stated: under strict a kinship item is vocative iff it is
\* comma-adjacent; under default iff it is comma-adjacent or the utterance is
\* standalone; under loose iff it is comma-adjacent, or the utterance is
\* standalone, or the item is at the utterance-initial position (it starts at
\* the first word of the utterance); every kinship item is counted once.
C7_HeuristicVariants ==
    hdone =>
        /\ CountedOnce
        /\ \A k \in 1..Len(hitems) :
              hitems[k].is_voc <=> VariantStated(hitems[k], hitems[k].s = 1)

\* C7 amended: as C7, but under loose the third case is that no item other
\* than discourse particles and noise tokens comes before the item in the
\* utterance.
C7_HeuristicVariantsAmended ==
    hdone =>
        /\ CountedOnce
        /\ \A k \in 1..Len(hitems) :
              hitems[k].is_voc <=>
                  VariantStated(hitems[k], FirstContentStated(htokens, hitems[k]))

\* Under loose, a kinship term after a discourse particle is vocative for
\* being the first content item alone, and a later one is an argument.
C7_Witness ==
    /\ hdone
    /\ heuristic = "loose"
    /\ ~StandaloneStated(htokens)
    /\ \E j, k \in 1..Len(hitems) :
          /\ hitems[j].s > 1
          /\ hitems[j].is_voc
          /\ ~CommaStated(htokens, hitems[j])
          /\ ~hitems[k].is_voc

\* C8: a stratum that received at most k items holds exactly those items, in
\* arrival order, whatever the random draws and whatever was offered to the
\* other strata.
C8_SmallStratumKept ==
    \A key \in Strata :
        /\ counts[key] = Len(offered[key])
        /\ counts[key] <= n_per_stratum => samples[key] = offered[key]

\* One stratum received exactly k = 2 items and kept them while another
\* overflowed and had an item replaced.
C8_Witness ==
    /\ n_per_stratum = 2
    /\ \E a, b \in Strata :
          /\ counts[a] = 2
          /\ Len(samples[a]) = 2
          /\ counts[b] > 2
          /\ samples[b] # SubSeq(offered[b], 1, 2)

\* C9: a row whose manual label is an ambiguous marker increments no cell
\* under the policy drop, is counted as true vocative (tp or fn by the
\* predicted label) under voc and as true argument (fp or tn) under arg.
C9_AmbiguousPolicy ==
    (/\ nrows > 0
     /\ row.manual_label \in {"ambig", "ambiguous", "uncertain"}
     /\ row.category \in {"parent", "extended"})
    => conf =
         IF ambiguous = "drop" THEN conf_before
         ELSE IF ambiguous = "voc"
         THEN [conf_before EXCEPT
                 ![row.category][IF row.class = "vocative" THEN "tp" ELSE "fn"] = @ + 1]
         ELSE [conf_before EXCEPT
                 ![row.category][IF row.class = "vocative" THEN "fp" ELSE "tn"] = @ + 1]

\* C10: when main() aborts on a configuration error, no input file has been
\* read, no computation performed and no output file written.
C10_ConfigErrorAbortsFirst ==
    pc = "aborted" => effects = <<>>

(***************************************************************************)
(* Properties of the rate computations                                     *)
(***************************************************************************)
\* Whether the denominator of the named value is 0.
ZeroDenominator(name) ==
    CASE name = "per_million" -> rate_in.surface_total = 0
      [] name = "vocative_percent" -> rate_in.voc + rate_in.arg = 0
      [] name = "pct_voc_then_bare" -> rate_in.vt = 0
      [] name = "pct_bare_after_voc" -> rate_in.bt = 0
      [] name = "parent_rate" -> rate_in.parent_voc + rate_in.parent_arg = 0
      [] name = "extended_rate" -> rate_in.extended_voc + rate_in.extended_arg = 0
      [] name = "ratio" -> rate_out["extended_rate"].n = 0

\* C11 as stated: every rate, percentage and ratio derived from counts is 0
\* when its denominator is 0, and none of these computations raises.
C11_ZeroDenominatorIsZero ==
    \A name \in DOMAIN rate_out :
        /\ rate_out[name].kind # "ZeroDivisionError"
        /\ ZeroDenominator(name) => rate_out[name] = Num(0, 1)

\* C11 amended: as C11, except that the between-category ratio is math.inf
\* when the extended rate, its denominator, is 0.
C11_ZeroDenominatorAmended ==
    \A name \in DOMAIN rate_out :
        /\ rate_out[name].kind # "ZeroDivisionError"
        /\ ZeroDenominator(name) =>
              rate_out[name] = IF name = "ratio" THEN Inf ELSE Num(0, 1)

\* A draw of the simulation with no extended occurrence at all and parent
\* occurrences: the extended rate is the guarded 0, the ratio is computed
\* from it.
C11_Witness ==
    /\ rate_in.fn = "simulate"
    /\ DOMAIN rate_out # {}
    /\ rate_in.extended_voc + rate_in.extended_arg = 0
    /\ rate_in.parent_voc > 0
    /\ rate_out["extended_rate"] = Num(0, 1)
    /\ rate_out["parent_rate"].n > 0

(***************************************************************************)
(* Properties of the walk over the files                                   *)
(***************************************************************************)
\* The lines the walk has passed: line k of file j, for the files before the
\* current one and the lines before the current one.
Passed ==
    {jk \in (1..Len(walk_files)) \X (1..MaxFileLines + 1) :
        /\ jk[2] <= Len(walk_files[jk[1]].lines)
        /\ \/ jk[1] < fi
           \/ jk[1] = fi /\ walk_pc = "lines" /\ jk[2] < li}

\* The passed lines that are copies of the line l.
PassedCopies(l) == Cardinality({jk \in Passed : walk_files[jk[1]].lines[jk[2]] = l})

C13_SkipCountsReported ==
    walk_pc = "done" =>
        /\ {"files_skipped", "lines_skipped"} \subseteq DOMAIN report
        /\ report["files_skipped"] = skipped_files
        /\ report["lines_skipped"] = skipped_lines

\* sorted(Paths)
SortedPaths == <<"a.cha", "b.cha">>

\* C14: the files are processed in sorted path order and the lines of each
\* file in file order.
C14_SortedFileOrder ==
    /\ walk_pc = "done" => visited = SortedPaths
    /\ \A k \in 1..Len(visited) : visited[k] = walk_files[k].path

(***************************************************************************)
(* Properties of spearman                                                  *)
(***************************************************************************)
\* The value is the number 1 (sign = 1) or -1 (sign = -1).
IsUnit(v, sign) ==
    /\ v.kind = "num"
    /\ sign * v.num > 0
    /\ v.num * v.num = v.sx * v.sy

\* C15: spearman(x, x) is 1.0 for every non-empty dataset x and
\* spearman(x, y) is -1.0 whenever y pairs x with its exact reverse order.
C15_SpearmanSelfAndReverse ==
    (sp_out.kind # "pending" /\ Len(sp_x) > 0) =>
        /\ sp_y = sp_x => IsUnit(sp_out, 1)
        /\ sp_y = ReversePairing(sp_x) => IsUnit(sp_out, -1)

(***************************************************************************)
(* Properties of conf                                                      *)
(***************************************************************************)
\* C16: every confusion matrix simulate_corrections receives has four
\* non-negative integer counts tp, fp, fn, tn and belongs to the category
\* parent or extended; an input that would violate this is rejected before
\* the simulation.
C16_ConfusionWellFormed ==
    conf_pc = "simulate" =>
        /\ DOMAIN handed \subseteq {"parent", "extended"}
        /\ \A cat \in DOMAIN handed :
              /\ DOMAIN handed[cat] = {"tp", "fp", "fn", "tn"}
              /\ \A cell \in DOMAIN handed[cat] : handed[cat][cell] \in Nat

(***************************************************************************)
(* Properties of the default heuristic of compute()                        *)
(***************************************************************************)
\* C17: in an utterance that is not standalone, a kinship item, single or
\* compound, is vocative exactly when the token right before its first token
\* or right after its last token is a comma, whether or not a determiner
\* precedes it; a vocative item enters none of the argument counters.
C17_CommaAdjacency ==
    (nlines = 1 /\ ~standalone) =>
        /\ \A k \in 1..Len(occs) :
              occs[k].label = "voc" <=> CommaStated(line.tokens, occs[k])
        /\ Total(voc_counts) =
              Cardinality({k \in 1..Len(occs) : CommaStated(line.tokens, occs[k])})
        /\ Total(voc_counts) + Total(arg_counts) = Len(occs)
        /\ Total(arg_bare_counts) + Total(arg_det_counts) = Total(arg_counts)

\* "my grand ma ,": a compound with a determiner before it and a comma after
\* it, counted vocative.
C17_Witness ==
    /\ nlines = 1 /\ ~standalone
    /\ \E k \in 1..Len(occs) :
          /\ occs[k].multi
          /\ occs[k].label = "voc"
          /\ occs[k].end_tok + 1 <= Len(line.tokens)
          /\ line.tokens[occs[k].end_tok + 1] = ","
          /\ has_determiner(word_norm_of(line.tokens), word_raw_of(line.tokens), occs[k].idx)
    /\ Total(arg_det_counts) = 0

\* An argument occurrence without a determiner on which the %mor tier shows
\* a proper noun right after the term.
UndeterminedBeforeName(k) ==
    /\ occs[k].label # "voc"
    /\ ~has_determiner(word_norm_of(line.tokens), word_raw_of(line.tokens), occs[k].idx)
    /\ ProperNounFollows(line, occs[k])

MorWindow == 2

\* The position in the %mor tier of the entry of the occurrence's own word:
\* every clitic group among the words before it shifts it by one.
OwnEntry(l, o) ==
    LET raw == word_raw_of(l.tokens)
    IN  o.idx + Cardinality({j \in 1..(o.idx - 1) : raw[j] = "wanna"})

\* The term's own entry of the %mor tier lies within MorWindow positions of
\* the position of the term among the words, and a proper noun comes right
\* after that entry.
TitleNameNearby(l, o) ==
    \E mi \in {OwnEntry(l, o)} :
        /\ mi >= o.idx - MorWindow /\ mi <= o.idx + MorWindow
        /\ mi + 1 <= Len(l.mor_tokens)
        /\ l.mor_tokens[mi][2] = o.lex
        /\ l.mor_tokens[mi + 1][1] = "n:prop"

\* C19: a title+name construction is detected when the term's entry lies
\* within two positions of the expected index of the %mor tier: an argument
\* occurrence of a title term without a determiner, whose entry in that
\* window is followed by a proper noun, gets the override.
C19_MisalignmentTolerated ==
    nlines = 1 =>
        \A k \in 1..Len(occs) :
            (/\ occs[k].label # "voc"
             /\ ~occs[k].multi
             /\ occs[k].lex \in TITLE_KINSHIP
             /\ ~has_determiner(word_norm_of(line.tokens), word_raw_of(line.tokens), occs[k].idx)
             /\ TitleNameNearby(line, occs[k])) =>
                occs[k].title_name /\ occs[k].label = "det"

\* The pairs of consecutive normalized words of the line that form a
\* registered compound, by the position of their first word.
CompoundPairs ==
    LET wn == word_norm_of(line.tokens)
    IN  {i \in 1..(Len(wn) - 1) : <<wn[i], wn[i + 1]>> \in MULTIWORD_KEYS}

\* One occurrence of the compound lexeme is emitted for the pair at i and
\* none for either of its words.
EmittedOnce(i) ==
    LET wn == word_norm_of(line.tokens)
    IN  /\ Cardinality({k \in 1..Len(occs) : occs[k].multi /\ occs[k].idx = i}) = 1
        /\ \A k \in 1..Len(occs) :
              /\ (occs[k].multi /\ occs[k].idx = i) =>
                     occs[k].lex = MULTIWORD(<<wn[i], wn[i + 1]>>)
              /\ ~occs[k].multi => occs[k].idx \notin {i, i + 1}

\* C20: two consecutive normalized words that form a registered compound
\* give exactly one occurrence, of the compound lexeme; neither word is
\* classified or counted on its own; the occurrence spans two adjacent
\* positions of the token sequence.
C20_CompoundAtomic ==
    nlines = 1 =>
        /\ \A i \in CompoundPairs : EmittedOnce(i)
        /\ Total(voc_counts) + Total(arg_counts) = Len(occs)
        /\ \A k \in 1..Len(occs) :
              occs[k].multi => occs[k].end_tok = occs[k].start_tok + 1

(***************************************************************************)
(* Properties of ranks                                                     *)
(***************************************************************************)
\* The 1-based positions the values equal to values[p] occupy in sorted
\* order.
SortedPositions(values, p) ==
    LET below == Cardinality({q \in 1..Len(values) : values[q] < values[p]})
        equal == Cardinality({q \in 1..Len(values) : values[q] = values[p]})
    IN  (below + 1)..(below + equal)

RECURSIVE SumSet(_)
SumSet(S) == IF S = {} THEN 0 ELSE LET m == CHOOSE m \in S : TRUE IN m + SumSet(S \ {m})

\* C22: ranks assigns midranks: a strictly smaller value gets a strictly
\* smaller rank, equal values get the same rank, the average of the positions
\* they occupy in sorted order, and the ranks of n values sum to n(n+1)/2
\* (the ranks are doubled here).
C22_Midranks ==
    sp_out.kind # "pending" =>
        LET r == ranks(sp_x)
            n == Len(sp_x)
        IN  /\ Len(r) = n
            /\ \A p, q \in 1..n :
                  /\ sp_x[p] < sp_x[q] => r[p] < r[q]
                  /\ sp_x[p] = sp_x[q] => r[p] = r[q]
            /\ \A p \in 1..n :
                  r[p] * Cardinality(SortedPositions(sp_x, p)) =
                      2 * SumSet(SortedPositions(sp_x, p))
            /\ SumSeq(r) = n * (n + 1)

\* Three values, two of them tied below the third: the tied ones get 1.5.
C22_Witness ==
    /\ sp_out.kind # "pending"
    /\ Len(sp_x) = 3
    /\ ranks(sp_x) = <<3, 6, 3>>

(***************************************************************************)
(* Properties of analyse()                                                 *)
(***************************************************************************)
\* The (file, utterance) positions analyse() has been through.
Analysed ==
    {p \in (1..Len(adj_corpus)) \X (1..MaxUtts + 1) :
        /\ p[2] <= Len(adj_corpus[p[1]])
        /\ p[1] < adj_f \/ (p[1] = adj_f /\ p[2] < adj_i)}

TermsOf(p) == classify_utterance(adj_corpus[p[1]][p[2]])

AdjacencyTermSet == {"ma", "auntie"}

\* The positions gone through where t is vocative and that are not the last
\* of their file.
VocativeNotLast(t) ==
    {p \in Analysed : t \in TermsOf(p).voc /\ p[2] < Len(adj_corpus[p[1]])}

\* The positions gone through where t is a bare argument and that are not
\* the first of their file.
BareNotFirst(t) == {p \in Analysed : t \in TermsOf(p).bare /\ p[2] > 1}

Following(p) == TermsOf(<<p[1], p[2] + 1>>)

\* C21: for every term t the four transition counters add up to the number
\* of utterances in which t is vocative and that are not the last of their
\* file, and each such utterance is counted in exactly one of them, chosen
\* from the next utterance of the same file in the order bare, determined,
\* vocative, absent.
C21_ForwardTransitions ==
    \A t \in AdjacencyTermSet :
        /\ Get(adj.voc_then_bare, t) + Get(adj.voc_then_det, t)
               + Get(adj.voc_then_voc, t) + Get(adj.voc_then_none, t)
             = Cardinality(VocativeNotLast(t))
        /\ Get(adj.voc_then_bare, t) =
               Cardinality({p \in VocativeNotLast(t) : t \in Following(p).bare})
        /\ Get(adj.voc_then_det, t) =
               Cardinality({p \in VocativeNotLast(t) :
                               t \notin Following(p).bare /\ t \in Following(p).det})
        /\ Get(adj.voc_then_voc, t) =
               Cardinality({p \in VocativeNotLast(t) :
                               /\ t \notin Following(p).bare /\ t \notin Following(p).det
                               /\ t \in Following(p).voc})
        /\ Get(adj.voc_then_none, t) =
               Cardinality({p \in VocativeNotLast(t) :
                               /\ t \notin Following(p).bare /\ t \notin Following(p).det
                               /\ t \notin Following(p).voc})

\* The first file ends on a vocative ma and the second begins with a bare
\* ma: the pair across the files is not counted, while a vocative followed
\* in its file by an utterance with ma both bare and vocative counts as bare.
C21_Witness ==
    /\ adj_pc = "done"
    /\ Len(adj_corpus[1]) = 2 /\ Len(adj_corpus[2]) = 1
    /\ "ma" \in TermsOf(<<1, 2>>).voc
    /\ "ma" \in TermsOf(<<1, 2>>).bare
    /\ "ma" \in TermsOf(<<2, 1>>).bare
    /\ Get(adj.voc_then_bare, "ma") = 1
    /\ Get(adj.voc_then_voc, "ma") = 0
    /\ Get(adj.voc_total, "ma") = 2

\* C24: after any corpus, for every term t, voc_then_bare[t] equals
\* bare_preceded_by_voc[t], and bare_preceded_by_voc[t] + bare_not_preceded[t]
\* is the number of utterances in which t is a bare argument and that are not
\* the first of their file.
C24_BackwardAgrees ==
    adj_pc = "done" =>
        \A t \in AdjacencyTermSet :
            /\ Get(adj.voc_then_bare, t) = Get(adj.bare_preceded_by_voc, t)
            /\ Get(adj.bare_preceded_by_voc, t) + Get(adj.bare_not_preceded, t)
                 = Cardinality(BareNotFirst(t))

\* A corpus with a bare ma after a vocative ma, a bare ma after an
\* utterance without a vocative and a bare ma at the start of a file.
C24_Witness ==
    /\ adj_pc = "done"
    /\ Len(adj_corpus[2]) = 1 /\ "ma" \in TermsOf(<<2, 1>>).bare
    /\ Get(adj.bare_preceded_by_voc, "ma") = 1
    /\ Get(adj.bare_not_preceded, "ma") = 1
    /\ Get(adj.bare_total, "ma") = 3

\* The per-term sum of two Counters.
MergeCounters(c1, c2) ==
    [k \in DOMAIN c1 \cup DOMAIN c2 |-> Get(c1, k) + Get(c2, k)]

\* analyse() on a file by itself, from its utterance i on.
RECURSIVE AnalyseFileFrom(_, _, _)
AnalyseFileFrom(counters, utts, i) ==
    IF i > Len(utts) THEN counters
    ELSE AnalyseFileFrom(analyse_step(counters, utts, i), utts, i + 1)

ComputeCounterNames ==
    {"voc_counts", "voc_chi_counts", "voc_adu_counts", "arg_counts", "arg_bare_counts",
     "arg_det_counts", "arg_title_name_excluded"}

\* The Counters of compute() by name.
ComputeCounter(name) ==
    CASE name = "voc_counts" -> voc_counts
      [] name = "voc_chi_counts" -> voc_chi_counts
      [] name = "voc_adu_counts" -> voc_adu_counts
      [] name = "arg_counts" -> arg_counts
      [] name = "arg_bare_counts" -> arg_bare_counts
      [] name = "arg_det_counts" -> arg_det_counts
      [] name = "arg_title_name_excluded" -> arg_title_name_excluded

\* C23: the Counters compute() returns are, in either order of the files,
\* the per-term sum of the Counters of each file run alone, and so are the
\* Counters analyse() returns, which are also those of the files taken in
\* the other order.
C23_MergeOfFiles ==
    /\ listed = 2 =>
          /\ \A name \in ComputeCounterNames :
                ComputeCounter(name) =
                    MergeCounters(CountFile(ZeroCounter, adj_corpus[1], 1, name),
                                  CountFile(ZeroCounter, adj_corpus[2], 1, name))
          /\ surface_total = SurfaceFile(adj_corpus[1], 1) + SurfaceFile(adj_corpus[2], 1)
    /\ (listed = 2 /\ adj_pc = "done") =>
          \A name \in AdjacencyCounters :
              /\ adj[name] =
                     MergeCounters(AnalyseFileFrom(ZeroAdjacency, adj_corpus[1], 1)[name],
                                   AnalyseFileFrom(ZeroAdjacency, adj_corpus[2], 1)[name])
              /\ adj[name] =
                     AnalyseFileFrom(AnalyseFileFrom(ZeroAdjacency, adj_corpus[2], 1),
                                     adj_corpus[1], 1)[name]

\* The second file listed first, both files with a vocative ma, the first
\* also with an argument and a vocative followed by a bare argument.
C23_Witness ==
    /\ listed = 2 /\ adj_pc = "done"
    /\ listing = <<2, 1>>
    /\ Get(CountFile(ZeroCounter, adj_corpus[1], 1, "voc_counts"), "ma") = 1
    /\ Get(CountFile(ZeroCounter, adj_corpus[2], 1, "voc_counts"), "ma") = 1
    /\ Get(voc_counts, "ma") = 2
    /\ Get(arg_counts, "ma") >= 1
    /\ Get(adj.voc_then_bare, "ma") = 1
    /\ Get(adj.voc_total, "ma") = 2

(***************************************************************************)
(* Properties relating the walkers                                         *)
(***************************************************************************)
\* voc_counts and arg_counts of compute_counts under h for the line counted.
VocUnder(h) == HeurBump(ZeroCounter, HeurItems(htokens, h), TRUE)

ArgUnder(h) == HeurBump(ZeroCounter, HeurItems(htokens, h), FALSE)

HeurTerms == {"ma", "grandma"}

\* C25: for every term the vocative count under strict is at most that
\* under default, which is at most that under loose, and the sum of the
\* vocative and the argument count is the same under the three variants.
C25_VariantsNested ==
    hdone =>
        /\ hvoc = VocUnder(heuristic) /\ harg = ArgUnder(heuristic)
        /\ \A t \in HeurTerms :
              /\ Get(VocUnder("strict"), t) <= Get(VocUnder("default"), t)
              /\ Get(VocUnder("default"), t) <= Get(VocUnder("loose"), t)
              /\ \A h \in Heuristics :
                    Get(VocUnder(h), t) + Get(ArgUnder(h), t) = Get(hvoc, t) + Get(harg, t)

\* "ma Sarah , ma" under loose: two vocatives, the utterance-initial one
\* and the one after the comma, against one under default and strict.
C25_Witness ==
    /\ hdone /\ heuristic = "loose"
    /\ Get(hvoc, "ma") = 2
    /\ Get(VocUnder("default"), "ma") = 1
    /\ Get(VocUnder("strict"), "ma") = 1
    /\ Get(ArgUnder("strict"), "ma") = 1

\* The terms of the lines over LineVocab.
LineTerms == {"ma", "grandma", "auntie"}

\* C26: for every term, compute_counts under the default heuristic returns
\* the vocative and argument counts compute() returns.
C26_SensitivityAgrees ==
    nlines = 1 =>
        \A t \in LineTerms :
            /\ Get(HeurBump(ZeroCounter, HeurItems(line.tokens, "default"), TRUE), t)
                 = Get(voc_counts, t)
            /\ Get(HeurBump(ZeroCounter, HeurItems(line.tokens, "default"), FALSE), t)
                 = Get(arg_counts, t)

\* "Auntie , my ma": a vocative before the comma and an argument after a
\* determiner, counted alike by both.
C26_Witness ==
    /\ nlines = 1
    /\ Get(voc_counts, "auntie") = 1
    /\ Get(arg_counts, "ma") = 1
    /\ Get(HeurBump(ZeroCounter, HeurItems(line.tokens, "default"), FALSE), "ma") = 1
    /\ Get(HeurBump(ZeroCounter, HeurItems(line.tokens, "default"), TRUE), "auntie") = 1

\* The terms compute() counts under the label for the line.
CountedAs(label) == {occs[k].lex : k \in {q \in 1..Len(occs) : occs[q].label = label}}

\* C27: for an utterance without a %mor tier, the sets of vocative, bare and
\* determined terms classify_utterance returns are the terms compute()
\* counts as vocative, bare argument and determined argument.
C27_AdjacencyAgrees ==
    (nlines = 1 /\ Len(line.mor_tokens) = 0) =>
        /\ classify_tokens(line.tokens).voc = CountedAs("voc")
        /\ classify_tokens(line.tokens).bare = CountedAs("bare")
        /\ classify_tokens(line.tokens).det = CountedAs("det")

\* C28: for every kinship term the surface count of the frequency script is
\* the sum of the vocative and the argument count of the classifier, noise
\* tokens, possessives and plurals included, and the two scripts return the
\* same surface_total.
C28_FrequencyAgrees ==
    nlines = 1 =>
        /\ \A t \in LineTerms :
              Get(surface_counts_of(line.tokens), t) = Get(voc_counts, t) + Get(arg_counts, t)
        /\ surface_total_of(line.tokens) = surface_total

\* C29: the category the sampler writes on the record of an occurrence is
\* the category categorize() gives the occurrence's term.  The sampler's walk
\* finds the occurrences the classifier's walk finds.
C29_CategoryAgrees ==
    \A k \in 1..Len(occs) : sampler_category(occs[k].lex) = categorize(occs[k].lex)

(***************************************************************************)
(* Properties of the reservoirs                                            *)
(***************************************************************************)
\* Every stratum holds min(counts, k) items, each one offered to that
\* stratum, none in two slots.
ReservoirsSound ==
    \A key \in Strata :
        /\ Len(samples[key]) =
              (IF counts[key] < n_per_stratum THEN counts[key] ELSE n_per_stratum)
        /\ \A s \in 1..Len(samples[key]) :
              \E o \in 1..Len(offered[key]) : samples[key][s] = offered[key][o]
        /\ \A s, u \in 1..Len(samples[key]) :
              samples[key][s] = samples[key][u] => s = u

\* One call of reservoir_add counts one stratum up and leaves the others.
OtherStrataKept ==
    \E key \in Strata :
        /\ counts'[key] = counts[key] + 1
        /\ \A other \in Strata \ {key} :
              /\ samples'[other] = samples[other]
              /\ counts'[other] = counts[other]

\* C30: after any sequence of reservoir_add calls with any k >= 0 and any
\* random draws, each stratum holds min(counts, k) items, all of them offered
\* to that stratum and no item twice, and each call leaves the samples and
\* counts of the other strata as they were.
C30_ReservoirSound == []ReservoirsSound /\ [][OtherStrataKept]_vars

\* A full reservoir of k = 2 has replaced one of its items by a later one,
\* while another stratum holds an item of its own.
C30_Witness ==
    /\ n_per_stratum = 2
    /\ counts["parent_voc"] = 3
    /\ Len(samples["parent_voc"]) = 2
    /\ samples["parent_voc"] # SubSeq(offered["parent_voc"], 1, 2)
    /\ Len(samples["extended_arg"]) = 1

====
